---- MODULE Spec2Model ----
(***************************************************************************)
(* finance-mcp: the tiered quote resolver (handle_quote_latest and its     *)
(* fallback chain), the Redis hot cache and stream store, the semantic     *)
(* cache, and the stream path that feeds the hot cache                     *)
(* (BinanceWebSocketConnector._process_message).                           *)
(*                                                                         *)
(* Time is a discrete clock in seconds.  Strings that the code inspects    *)
(* character by character (symbols, exchanges) are sequences of            *)
(* one-character strings; Python values whose type the code tests are      *)
(* tagged records (PyNone, PyStr, PyInt, PyFloat).                         *)
(***************************************************************************)
EXTENDS Integers, Sequences, FiniteSets, TLC

(***************************************************************************)
(* Bounds of the model.                                                    *)
(***************************************************************************)
\* number of quote.latest requests a behaviour may issue
NumReqs == 2
\* the clock runs over 0..MaxTick and then jumps past the recency window
MaxTick == 1
\* number of subscription ids a behaviour may issue
NumSubs == 2
\* number of unsubscribe calls a behaviour may make
NumCalls == 2
\* trade messages a subscription may receive, with one subscription and with
\* NumSubs subscriptions
MaxTrades == 2
PairMaxTrades == 1
\* consecutive failed connection attempts of one listening loop, with one
\* subscription and with NumSubs subscriptions
MaxFailed == 7
PairMaxFailed == 1
\* messages of one subscription that _process_message logs as an error
MaxSkipped == 1

(***************************************************************************)
(* Program constants.                                                      *)
(***************************************************************************)
\* config.py: default_max_age_sec
default_max_age_sec == 60
\* config.py: semantic_cache_threshold = 0.86, in hundredths
semantic_cache_threshold == 86
\* config.py: semantic_cache_recency_minutes = 5
semantic_cache_recency_minutes == 5
\* validation.py: SYMBOL_PATTERN / EXCHANGE_PATTERN allow 1..20 characters
PatternMaxLen == 20
\* validation.py: validate_max_age_sec rejects values above 3600
MaxAgeLimit == 3600
\* finnhub.py / alpha_vantage.py: stop_after_attempt(3)
stop_after_attempt == 3
\* finnhub.py / alpha_vantage.py: wait_exponential(multiplier=1, min=2, max=30)
wait_min == 2
wait_max == 30
\* finnhub.py: _min_interval = 1.0 (seconds)
finnhub_min_interval == 1
\* alpha_vantage.py: _min_interval = 12.0 (seconds)
alpha_vantage_min_interval == 12
\* binance_ws.py: reconnect_delay = 1, max_reconnect_delay = 60
reconnect_floor == 1
max_reconnect_delay == 60

(***************************************************************************)
(* Python values.                                                          *)
(***************************************************************************)
None == [t |-> "none"]
PyStr(s) == [t |-> "str", v |-> s]
PyInt(i) == [t |-> "int", v |-> i]
PyFloat(i) == [t |-> "float", v |-> i]

\* Python truthiness of a tagged value: None, "", 0 and 0.0 are falsy
Truthy(x) ==
    CASE x.t = "none" -> FALSE
      [] x.t = "str" -> x.v # <<>>
      [] OTHER -> x.v # 0

(***************************************************************************)
(* Characters.                                                             *)
(***************************************************************************)
UpperLetters ==
    {"A","B","C","D","E","F","G","H","I","J","K","L","M",
     "N","O","P","Q","R","S","T","U","V","W","X","Y","Z"}
Digits == {"0","1","2","3","4","5","6","7","8","9"}
Whitespace == {" ", "\t", "\n"}

UpperOf ==
    [c \in {"a","b","c","d","e","f","g","h","i","j","k","l","m",
            "n","o","p","q","r","s","t","u","v","w","x","y","z"} |->
        CASE c = "a" -> "A" [] c = "b" -> "B" [] c = "c" -> "C" [] c = "d" -> "D"
          [] c = "e" -> "E" [] c = "f" -> "F" [] c = "g" -> "G" [] c = "h" -> "H"
          [] c = "i" -> "I" [] c = "j" -> "J" [] c = "k" -> "K" [] c = "l" -> "L"
          [] c = "m" -> "M" [] c = "n" -> "N" [] c = "o" -> "O" [] c = "p" -> "P"
          [] c = "q" -> "Q" [] c = "r" -> "R" [] c = "s" -> "S" [] c = "t" -> "T"
          [] c = "u" -> "U" [] c = "v" -> "V" [] c = "w" -> "W" [] c = "x" -> "X"
          [] c = "y" -> "Y" [] c = "z" -> "Z"]

\* str.upper()
upper(s) == [i \in 1..Len(s) |-> IF s[i] \in DOMAIN UpperOf THEN UpperOf[s[i]] ELSE s[i]]

\* str.lower()
lower(s) ==
    [i \in 1..Len(s) |->
        IF \E c \in DOMAIN UpperOf : UpperOf[c] = s[i]
        THEN CHOOSE c \in DOMAIN UpperOf : UpperOf[c] = s[i]
        ELSE s[i]]

\* str.strip(): drop leading and trailing whitespace
RECURSIVE lstrip(_)
lstrip(s) == IF s # <<>> /\ Head(s) \in Whitespace THEN lstrip(Tail(s)) ELSE s
RECURSIVE rstrip(_)
rstrip(s) ==
    IF s # <<>> /\ s[Len(s)] \in Whitespace THEN rstrip(SubSeq(s, 1, Len(s) - 1)) ELSE s
strip(s) == rstrip(lstrip(s))

\* needle in haystack (Python's substring test)
Contains(haystack, needle) ==
    \E i \in 1..(Len(haystack) - Len(needle) + 1) :
        SubSeq(haystack, i, i + Len(needle) - 1) = needle

(***************************************************************************)
(* InputValidator (mcp_server/utils/validation.py).  A validator yields    *)
(* [ok |-> TRUE, v |-> value] or [ok |-> FALSE, error |-> message].        *)
(***************************************************************************)
Ok(v) == [ok |-> TRUE, v |-> v]
ValueError(msg) == [ok |-> FALSE, error |-> msg]

\* faulty variant of SYMBOL_PATTERN: the pattern without its length limit
SYMBOL_PATTERN_unbounded(s) ==
    /\ Len(s) >= 1
    /\ \A i \in 1..Len(s) : upper(s)[i] \in UpperLetters \cup Digits

\* re.compile(r'^[A-Z0-9]{1,20}$', re.IGNORECASE).match(s)
SYMBOL_PATTERN(s) ==
    /\ Len(s) >= 1
    /\ Len(s) <= PatternMaxLen
    /\ \A i \in 1..Len(s) : upper(s)[i] \in UpperLetters \cup Digits

\* re.compile(r'^[A-Z0-9_]{1,20}$', re.IGNORECASE).match(s)
EXCHANGE_PATTERN(s) ==
    /\ Len(s) >= 1
    /\ Len(s) <= PatternMaxLen
    /\ \A i \in 1..Len(s) : upper(s)[i] \in UpperLetters \cup Digits \cup {"_"}

validate_symbol(symbol) ==
    IF ~Truthy(symbol) THEN ValueError("Symbol cannot be empty")
    ELSE LET s == upper(strip(symbol.v))
         IN  IF ~SYMBOL_PATTERN(s) THEN ValueError("Invalid symbol format")
             ELSE Ok(s)

validate_exchange(exchange) ==
    IF ~Truthy(exchange) THEN Ok(None)
    ELSE LET e == upper(strip(exchange.v))
         IN  IF ~EXCHANGE_PATTERN(e) THEN ValueError("Invalid exchange format")
             ELSE Ok(PyStr(e))

validate_max_age_sec(max_age_sec) ==
    IF max_age_sec.t = "none" THEN Ok(60)
    ELSE IF max_age_sec.t # "int" \/ max_age_sec.v < 1
         THEN ValueError("maxAgeSec must be a positive integer")
    ELSE IF max_age_sec.v > MaxAgeLimit
         THEN ValueError("maxAgeSec cannot exceed 3600 seconds")
    ELSE Ok(max_age_sec.v)

VALID_CHANNELS == {<<"t","r","a","d","e","s">>, <<"q","u","o","t","e","s">>}

validate_channel(channel) ==
    IF ~Truthy(channel) THEN Ok(<<"t","r","a","d","e","s">>)
    ELSE LET c == lower(strip(channel.v))
         IN  IF c \notin VALID_CHANNELS THEN ValueError("Invalid channel")
             ELSE Ok(c)

(***************************************************************************)
(* Domains of the model.                                                   *)
(***************************************************************************)
AAPL == <<"A","A","P","L">>
BTCUSDT == <<"B","T","C","U","S","D","T">>
\* the symbols the live feed carries trades for
StreamSymbols == {BTCUSDT}

Reqs == 1..NumReqs
RecencySec == semantic_cache_recency_minutes * 60
\* the instants of the clock: 0..MaxTick, then one instant later than the
\* recency window after each of them
LateTime == RecencySec + MaxTick
Times == (0..MaxTick) \cup {LateTime}

Q1 == <<"q1">>
Q2 == <<"q2">>
Q3 == <<"q3">>

\* what an upstream provider can answer to one HTTP request
ProviderPrices == {-1, 0, 1}
ProviderOutcomes ==
    {[kind |-> "rate_limit"], [kind |-> "http_error"], [kind |-> "error"],
     [kind |-> "nodata"]}
    \cup {[kind |-> "json", price |-> p] : p \in ProviderPrices}

\* the inbound feed messages: malformed JSON, a non-trade event, or a trade
\* event whose "p" (price) and "E" (event time) fields may be absent
TradeMessages ==
    {[e |-> "trade", p |-> p, E |-> E] :
        p \in {None, PyInt(1)},
        E \in {None, PyInt(MaxTick)}}
Messages == {[e |-> "malformed"], [e |-> "other"]} \cup TradeMessages

\* the request inputs of the resolver
Input(symbol, exchange, max_age_sec, agent_id, query_text) ==
    [symbol |-> symbol, exchange |-> exchange, max_age_sec |-> max_age_sec,
     agent_id |-> agent_id, query_text |-> query_text]

Agent == PyStr(<<"agent">>)
aapl == PyStr(<<" ","a","a","p","l">>)
btcusdt == PyStr(<<"b","t","c","u","s","d","t">>)
ethusdt == PyStr(<<"e","t","h","u","s","d","t">>)
LongSymbol == PyStr([i \in 1..(PatternMaxLen + 1) |-> "A"])
FullSymbol == PyStr([i \in 1..PatternMaxLen |-> "Z"])

\* requests that pass validation: two symbols with a staleness bound of 1 s,
\* with and without requester identity and query text, and one request with
\* the default staleness bound
ValidInputs ==
    {Input(s, None, PyInt(1), c[1], c[2]) :
        s \in {aapl, btcusdt},
        c \in {<<None, None>>, <<Agent, PyStr(Q1)>>}}
    \cup {Input(btcusdt, None, None, None, None)}

\* requests with a bad symbol, a bad exchange or a bad staleness bound, and
\* requests whose unusual but valid fields pass
EdgeInputs ==
    {Input(s, e, PyInt(1), None, PyStr(Q1)) :
        s \in {None, PyStr(<<>>), PyStr(<<" ">>), PyStr(<<"A","!">>),
               PyStr(<<"A"," ","B">>), PyStr(<<"A","_">>), LongSymbol, FullSymbol},
        e \in {None, PyStr(<<" ">>)}}
    \cup {Input(aapl, e, PyInt(1), None, PyStr(Q1)) :
            e \in {PyStr(<<>>), PyStr(<<" ">>), PyStr(<<"n","_","1">>),
                   PyStr(<<"N","-">>)}}
    \cup {Input(aapl, e, m, None, PyStr(Q1)) :
            e \in {None, PyStr(<<"N","-">>)},
            m \in {PyInt(0), PyInt(-1), PyInt(MaxAgeLimit), PyInt(MaxAgeLimit + 1),
                   PyFloat(2), PyStr(<<"6","0">>)}}

\* further symbols with and without a crypto marker
MarkerInputs ==
    {Input(PyStr(s), None, PyInt(1), None, None) :
        s \in {<<"x","e","t","h">>, <<"B","T">>}}

Inputs == ValidInputs \cup EdgeInputs \cup MarkerInputs

\* the inputs, provider answers and feed messages of SpecPair
PairInputs ==
    {Input(s, None, PyInt(1), c[1], c[2]) :
        s \in {aapl, btcusdt},
        c \in {<<None, None>>, <<Agent, PyStr(Q1)>>, <<None, PyStr(Q2)>>}}
\* in SpecPair Finnhub always answers with a quote
PairOutcomes == {[kind |-> "json", price |-> 1]}

\* the inputs and provider answers of SpecLimiter: two symbols without crypto
\* marker; a rate limit or a quote
msft == PyStr(<<"M","S","F","T">>)
LimiterInputs == {Input(s, None, PyInt(1), None, None) : s \in {aapl, msft}}
LimiterOutcomes == {[kind |-> "rate_limit"], [kind |-> "json", price |-> 1]}
PairMessages == {[e |-> "trade", p |-> PyInt(1), E |-> PyInt(0)]}

\* subscription ids ("sub_" and 8 hex digits of a new uuid4) are numbered:
\* SubIds are the ids subscribe issues, UnknownId is an id that is never
\* issued, EmptyId is the empty string, FeedId the feed's own subscription
SubIds == 1..NumSubs
UnknownId == 0
EmptyId == 0 - 1
FeedId == 0
ArgIds == SubIds \cup {UnknownId, EmptyId}
Calls == 1..NumCalls

\* the inputs of handle_quote_stream
StreamInput(symbol, channel, agent_id) ==
    [symbol |-> symbol, channel |-> channel, agent_id |-> agent_id]
StreamInputs ==
    {StreamInput(btcusdt, None, None),
     StreamInput(btcusdt, PyStr(<<" ","Q","u","o","t","e","s">>), Agent),
     StreamInput(PyStr(<<>>), PyStr(<<"t","r","a","d","e","s">>), None),
     StreamInput(btcusdt, PyStr(<<"t","r","a","d","e">>), None)}

PairStreamInputs ==
    {StreamInput(btcusdt, None, None),
     StreamInput(PyStr(<<>>), PyStr(<<"t","r","a","d","e","s">>), None)}

\* the messages a subscription receives: text that json.loads rejects, an
\* event other than a trade, trades, and a trade for which the callback of
\* the subscription raises
ListenMessages ==
    {[e |-> "malformed"], [e |-> "other"],
     [e |-> "trade", p |-> PyInt(1), E |-> PyInt(MaxTick)],
     [e |-> "trade", p |-> None, E |-> None],
     [e |-> "trade", p |-> PyInt(1), E |-> PyInt(MaxTick), callback |-> "raises"]}

(***************************************************************************)
(* State.                                                                  *)
(***************************************************************************)
\* _last_call_time = 0 is the Unix epoch; the clock of the model counts from
\* the start of the server, more than a minimum interval later
Epoch == 0 - alpha_vantage_min_interval

VARIABLES
    now,        \* the wall clock (time.time() / datetime.utcnow()), seconds
    redisUp,    \* whether the Redis server answers
    snapshot,   \* the Redis hashes snapshot:<SYMBOL>, by symbol
    stream,     \* the newest entry of each Redis stream stream:<SYMBOL>
    semantic,   \* the points of the Qdrant collection
    lineage,    \* the quote events recorded in the lineage graph
    req,        \* the quote.latest requests: inputs, position, calls, response
    _last_call_time, \* each provider client's _last_call_time
    _subscriptions, \* BinanceWebSocketConnector._subscriptions: id -> symbol
    _callbacks,     \* the ids that have an entry in _callbacks
    _running,       \* BinanceWebSocketConnector._running
    _tasks,         \* the ids that have an entry in _tasks
    _connections,   \* BinanceWebSocketConnector._connections: id -> socket
    _active_subscriptions, \* the ids in quote_stream._active_subscriptions
    task,       \* the listening task of each id: position and local variables
    unsub,      \* the unsubscribe calls: argument, position, result
    observed,   \* the ticks each subscription's callback was called with
    stream_resp, \* the last response of handle_quote_stream
    lifespan    \* the application lifespan: "started" until the shutdown part
                \* of server.lifespan has run, then "stopped"

\* the state of the stream connector and of the quote.stream handlers
tableVars == <<_subscriptions, _callbacks, _running, _tasks, _connections,
               _active_subscriptions>>
connVars == <<tableVars, task, unsub, observed, stream_resp, lifespan>>

vars == <<now, redisUp, snapshot, stream, semantic, lineage, req, _last_call_time,
          connVars>>

\* schemas.py: QuoteData (the fields the resolver reads)
QuoteData(symbol, price, timestamp, data_source, cache_hit) ==
    [symbol |-> symbol, price |-> price, timestamp |-> timestamp,
     data_source |-> data_source, cache_hit |-> cache_hit]

\* schemas.py: StreamTick
StreamTick(symbol, price, timestamp) ==
    [symbol |-> symbol, price |-> price, timestamp |-> timestamp,
     data_source |-> "binance"]

\* schemas.py: ToolResponse
ToolResponse(success, data, error, cache_hit, data_source) ==
    [success |-> success, data |-> data, error |-> error,
     cache_hit |-> cache_hit, data_source |-> data_source]

(***************************************************************************)
(* RedisClient (cache/redis_client.py).                                    *)
(***************************************************************************)
\* a Redis key that was never written is absent
Get(store, key) == IF key \in DOMAIN store THEN store[key] ELSE None
Put(store, key, value) ==
    [k \in DOMAIN store \cup {key} |-> IF k = key THEN value ELSE store[k]]

\* is_connected(): ping, False on ConnectionError
is_connected == redisUp

\* _get_snapshot_age(): None when the key has no timestamp or the read raises
_get_snapshot_age(symbol) ==
    IF ~redisUp THEN None
    ELSE IF Get(snapshot, upper(symbol)) = None THEN None
    ELSE PyFloat(now - Get(snapshot, upper(symbol)).timestamp)

\* faulty variant of is_snapshot_fresh: the boundary age counts as fresh
is_snapshot_fresh_le(symbol, max_age_sec) ==
    LET age == _get_snapshot_age(symbol)
    IN  IF age = None THEN FALSE ELSE age.v <= max_age_sec

\* faulty variant of is_snapshot_fresh: stale one second early
is_snapshot_fresh_early(symbol, max_age_sec) ==
    LET age == _get_snapshot_age(symbol)
    IN  IF age = None THEN FALSE ELSE age.v + 1 < max_age_sec

\* is_snapshot_fresh(): age is not None and age < max_age_sec
is_snapshot_fresh(symbol, max_age_sec) ==
    LET age == _get_snapshot_age(symbol)
    IN  IF age = None THEN FALSE ELSE age.v < max_age_sec

\* get_snapshot(): the stored hash as a QuoteData with cache_hit = True
get_snapshot(symbol) ==
    IF ~redisUp THEN None
    ELSE IF Get(snapshot, upper(symbol)) = None THEN None
    ELSE LET data == Get(snapshot, upper(symbol))
         IN  QuoteData(data.symbol, data.price, data.timestamp, data.source, TRUE)

\* faulty variant of set_snapshot: a stored snapshot that is newer is kept
set_snapshot_if_newer(quote) ==
    IF ~redisUp THEN snapshot
    ELSE IF /\ upper(quote.symbol) \in DOMAIN snapshot
            /\ snapshot[upper(quote.symbol)].timestamp > quote.timestamp
    THEN snapshot
    ELSE Put(snapshot, upper(quote.symbol),
             [symbol |-> quote.symbol, price |-> quote.price,
              timestamp |-> quote.timestamp, source |-> quote.data_source])

\* set_snapshot(): the store after hset of the quote's fields; the store is
\* left unchanged when the write raises
set_snapshot(quote) ==
    IF ~redisUp THEN snapshot
    ELSE Put(snapshot, upper(quote.symbol),
             [symbol |-> quote.symbol, price |-> quote.price,
              timestamp |-> quote.timestamp, source |-> quote.data_source])

\* add_to_stream(): xadd appends the tick, which becomes the newest entry
add_to_stream(tick) ==
    IF ~redisUp THEN stream
    ELSE Put(stream, upper(tick.symbol),
             [symbol |-> tick.symbol, price |-> tick.price, ts |-> tick.timestamp,
              source |-> tick.data_source])

\* get_latest_from_stream(): xrevrange count=1, None when empty or on error
get_latest_from_stream(symbol) ==
    IF ~redisUp THEN None
    ELSE IF Get(stream, upper(symbol)) = None THEN None
    ELSE LET data == Get(stream, upper(symbol))
         IN  StreamTick(data.symbol, data.price, data.ts)

(***************************************************************************)
(* SemanticCacheClient (cache/qdrant_client.py).                           *)
(***************************************************************************)
\* cosine similarity of the embeddings of two query texts, in hundredths
Score(a, b) ==
    IF a = b THEN 100
    ELSE IF {a, b} = {Q1, Q2} THEN 86
    ELSE 50

\* faulty variant of search_similar: a score equal to the threshold is no match
search_similar_above(query_text, symbol) ==
    LET cutoff_time == now - RecencySec
        matches == {pt \in semantic :
                        /\ pt.timestamp >= cutoff_time
                        /\ pt.symbol = upper(symbol)
                        /\ Score(query_text, pt.query_text) > semantic_cache_threshold}
    IN  {pt \in matches :
            \A o \in matches :
                Score(query_text, o.query_text) <= Score(query_text, pt.query_text)}

\* search_similar(): the points that may come back as results[0]: same symbol,
\* timestamp >= cutoff, score >= threshold, and no candidate scoring higher.
\* The empty set is the None result.
search_similar(query_text, symbol) ==
    LET cutoff_time == now - RecencySec
        matches == {pt \in semantic :
                        /\ pt.timestamp >= cutoff_time
                        /\ pt.symbol = upper(symbol)
                        /\ Score(query_text, pt.query_text) >= semantic_cache_threshold}
    IN  {pt \in matches :
            \A o \in matches :
                Score(query_text, o.query_text) <= Score(query_text, pt.query_text)}

\* store_response(): upsert of one point
store_response(agent_id, symbol, query_text, response) ==
    semantic \cup {[agent_id |-> agent_id, symbol |-> upper(symbol),
                    query_text |-> query_text, response |-> response,
                    timestamp |-> now]}

(***************************************************************************)
(* LineageWriter (graph/lineage_writer.py).                                *)
(***************************************************************************)
\* faulty variant of record_quote_fetch: a Neo4j failure is not caught
record_quote_fetch_raises(quote, agent_id, ok) ==
    [lineage |-> IF ok
                 THEN lineage \cup {[symbol |-> quote.symbol, price |-> quote.price,
                                     timestamp |-> quote.timestamp,
                                     source |-> quote.data_source, agent_id |-> agent_id]}
                 ELSE lineage,
     raised |-> ~ok]

\* record_quote_fetch(): one quote event, with the calling agent, when the
\* Neo4j calls succeed (ok); a failure is caught and logged, the call returns
\* False and nothing is raised
record_quote_fetch(quote, agent_id, ok) ==
    [lineage |-> IF ok
                 THEN lineage \cup {[symbol |-> quote.symbol, price |-> quote.price,
                                     timestamp |-> quote.timestamp,
                                     source |-> quote.data_source, agent_id |-> agent_id]}
                 ELSE lineage,
     raised |-> FALSE]

(***************************************************************************)
(* Provider clients (connectors/finnhub.py, connectors/alpha_vantage.py).  *)
(* One attempt of get_quote on the provider's answer: "retry" is an        *)
(* exception tenacity retries (httpx.HTTPError, RateLimitError), "raise"   *)
(* any other exception, "return" a returned value (None is Empty).         *)
(***************************************************************************)
Attempt(result, quote) == [result |-> result, quote |-> quote, exc |-> "none"]
\* an attempt that ends with the exception `exc`
Raise(result, exc) == [result |-> result, quote |-> None, exc |-> exc]

\* FinnhubConnector.get_quote, one attempt
finnhub_attempt(symbol, out) ==
    CASE out.kind = "rate_limit" -> Raise("retry", "RateLimitError")
      [] out.kind = "http_error" -> Raise("retry", "HTTPError")
      [] out.kind = "error" -> Raise("raise", "Exception")
      [] out.kind = "nodata" -> Attempt("return", None)
      [] OTHER ->
            IF out.price = 0 THEN Attempt("return", None)
            ELSE Attempt("return",
                         QuoteData(upper(symbol), out.price, now, "finnhub", FALSE))

\* AlphaVantageConnector.get_quote, one attempt
alpha_vantage_attempt(symbol, out) ==
    CASE out.kind = "rate_limit" -> Raise("retry", "RateLimitError")
      [] out.kind = "http_error" -> Raise("retry", "HTTPError")
      [] out.kind = "error" -> Raise("raise", "Exception")
      [] out.kind = "nodata" -> Attempt("return", None)
      [] OTHER ->
            Attempt("return",
                    QuoteData(upper(symbol), out.price, now, "alpha_vantage", FALSE))

\* faulty variant of RetryAgain: one attempt too many
RetryAgain_extra(attempt, attempts) ==
    attempt.result = "retry" /\ attempts <= stop_after_attempt

\* faulty variant of RetryAgain: every exception is retried
RetryAgain_any(attempt, attempts) ==
    attempt.result \in {"retry", "raise"} /\ attempts < stop_after_attempt

\* the @retry decorator: another attempt follows a retried exception unless
\* stop_after_attempt is reached
RetryAgain(attempt, attempts) ==
    attempt.result = "retry" /\ attempts < stop_after_attempt

\* wait_exponential: the pause after failed attempt number `attempt_number`
wait_exponential(attempt_number) ==
    LET result == 2 ^ (attempt_number - 1)
        capped == IF result < wait_max THEN result ELSE wait_max
    IN  IF capped > wait_min THEN capped ELSE wait_min

\* _min_interval of each provider client
_min_interval(provider) ==
    IF provider = "finnhub" THEN finnhub_min_interval ELSE alpha_vantage_min_interval

\* faulty variant of _respect_rate_limit: no wait
_respect_rate_limit_nowait(provider) == now

\* _respect_rate_limit(): the time at which it returns, after time.sleep() of
\* what is missing to the minimum interval since _last_call_time
_respect_rate_limit(provider) ==
    LET elapsed == now - _last_call_time[provider]
    IN  IF elapsed < _min_interval(provider)
        THEN now + (_min_interval(provider) - elapsed)
        ELSE now

\* how a get_quote call ended, as _fetch_with_fallback sees it: the returned
\* quote's price, Empty (None), RetryError after the last attempt, or another
\* exception
GetQuoteResult(attempt) ==
    CASE attempt.result = "retry" -> [result |-> "RetryError", cause |-> attempt.exc]
      [] attempt.result = "raise" -> [result |-> "error"]
      [] attempt.quote = None -> [result |-> "empty"]
      [] OTHER -> [result |-> "quote", price |-> attempt.quote.price]

\* faulty variant of Escapes: only the exhausted retries are caught
Escapes_uncaught(attempt) == attempt.result \notin {"return", "retry"}

\* _fetch_with_fallback wraps each provider in try/except Exception: an
\* attempt escapes the chain only if it ends in none of a returned value, an
\* exhausted retry (RetryError) or another Exception
Escapes(attempt) == attempt.result \notin {"return", "retry", "raise"}

\* what _fetch_with_fallback accepts from a REST provider
Accepted(attempt) ==
    attempt.result = "return" /\ attempt.quote # None /\ attempt.quote.price > 0

(***************************************************************************)
(* handle_quote_latest (mcp_server/invoke_handlers/quote_latest.py).       *)
(* A request runs from its entry to the first point where it waits for     *)
(* the network, then from each provider answer to the next wait or to its  *)
(* response.                                                               *)
(***************************************************************************)
Idle ==
    [pc |-> "idle", input |-> None, symbol |-> <<>>, max_age_sec |-> 0,
     calls |-> <<>>, attempts |-> 0, wake |-> 0, fh |-> None, av |-> None,
     resp |-> None]

\* faulty variant of is_crypto: only the USDT marker
is_crypto_usdt(symbol) == Contains(upper(symbol), <<"U","S","D","T">>)

\* _fetch_with_fallback: detect a crypto symbol
is_crypto(symbol) ==
    \E x \in {<<"U","S","D","T">>, <<"B","T","C">>, <<"E","T","H">>, <<"B","N","B">>} :
        Contains(upper(symbol), x)

\* _quote_to_dict
_quote_to_dict(quote) ==
    [symbol |-> quote.symbol, price |-> quote.price, timestamp |-> quote.timestamp,
     data_source |-> quote.data_source, cache_hit |-> quote.cache_hit]

\* the request returns `resp`
Return(r, rec, resp) ==
    /\ req' = [req EXCEPT ![r] = [rec EXCEPT !.pc = "done", !.resp = resp]]
    /\ UNCHANGED <<now, _last_call_time>>

\* lines 164-171: an exception other than ValueError reaches the handler
InternalError == ToolResponse(FALSE, None, "Internal error", FALSE, None)

\* lines 120-154: the chain produced `quote`; update the caches, record the
\* lineage and answer
Complete(r, rec, quote) ==
    LET in == rec.input
        store == Truthy(in.query_text) /\ Truthy(in.agent_id)
        record == Truthy(in.agent_id)
        calls == rec.calls \o <<"redis.is_connected">>
                    \o (IF is_connected THEN <<"redis.set_snapshot">> ELSE <<>>)
                    \o (IF store THEN <<"semantic.store_response">> ELSE <<>>)
                    \o (IF record THEN <<"lineage.record_quote_fetch">> ELSE <<>>)
    IN  /\ snapshot' = IF is_connected THEN set_snapshot(quote) ELSE snapshot
        /\ semantic' = IF store
                       THEN store_response(in.agent_id.v, rec.symbol, in.query_text.v,
                                           _quote_to_dict(quote))
                       ELSE semantic
        /\ \E ok \in BOOLEAN :
            LET recorded == IF record THEN record_quote_fetch(quote, in.agent_id.v, ok)
                            ELSE [lineage |-> lineage, raised |-> FALSE]
            IN  /\ lineage' = recorded.lineage
                /\ Return(r, [rec EXCEPT !.calls = calls],
                          IF recorded.raised THEN InternalError
                          ELSE ToolResponse(TRUE, _quote_to_dict(quote), None, FALSE,
                                            quote.data_source))

\* faulty variant of Fail: the failure leaves a placeholder in the hot cache
Fail_placeholder(r, rec) ==
    /\ Return(r, rec, ToolResponse(FALSE, None, "Failed to fetch quote", FALSE, None))
    /\ snapshot' = set_snapshot(QuoteData(rec.symbol, 0, now, "alpha_vantage", FALSE))
    /\ UNCHANGED <<semantic, lineage>>

\* lines 112-118: the chain produced nothing
Fail(r, rec) ==
    /\ Return(r, rec, ToolResponse(FALSE, None, "Failed to fetch quote", FALSE, None))
    /\ UNCHANGED <<snapshot, semantic, lineage>>

\* an attempt of get_quote up to `await self._client.get(...)`: the limiter,
\* with its time.sleep() inside the step, then the outbound call
SendRequest(provider) ==
    /\ now' = _respect_rate_limit(provider)
    /\ _last_call_time' = [_last_call_time EXCEPT ![provider] = now']

\* _fetch_with_fallback hands the symbol to a REST provider and waits for
\* the answer to its first attempt
CallProvider(r, rec, provider) ==
    /\ req' = [req EXCEPT ![r] =
                [rec EXCEPT !.pc = provider, !.attempts = 1,
                            !.calls = rec.calls \o <<provider \o ".get_quote",
                                                     provider \o ".http">>]]
    /\ SendRequest(provider)
    /\ UNCHANGED <<snapshot, semantic, lineage>>

\* faulty variant of _fetch_with_fallback: the REST order reversed
_fetch_with_fallback_reversed(r, rec) == CallProvider(r, rec, "alpha_vantage")

\* _fetch_with_fallback up to the first REST call
_fetch_with_fallback(r, rec) ==
    IF is_crypto(rec.symbol)
    THEN LET rec2 == [rec EXCEPT !.calls = rec.calls \o <<"binance.get_latest_price">>]
             tick == get_latest_from_stream(rec.symbol)
         IN  IF tick # None
             THEN Complete(r, rec2,
                           QuoteData(tick.symbol, tick.price, tick.timestamp,
                                     "binance", FALSE))
             ELSE CallProvider(r, rec2, "finnhub")
    ELSE CallProvider(r, rec, "finnhub")

\* lines 88-110: the hot cache, then the chain
HotCache(r, rec) ==
    LET fresh == is_connected /\ is_snapshot_fresh(rec.symbol, rec.max_age_sec)
        quote == get_snapshot(rec.symbol)
        calls == rec.calls \o <<"redis.is_connected">>
                    \o (IF is_connected THEN <<"redis.is_snapshot_fresh">> ELSE <<>>)
                    \o (IF fresh THEN <<"redis.get_snapshot">> ELSE <<>>)
        rec2 == [rec EXCEPT !.calls = calls]
    IN  IF fresh /\ quote # None
        THEN /\ Return(r, rec2,
                       ToolResponse(TRUE,
                                    _quote_to_dict([quote EXCEPT !.cache_hit = TRUE,
                                                                 !.data_source = "redis_cache"]),
                                    None, TRUE, "redis_cache"))
             /\ UNCHANGED <<snapshot, semantic, lineage>>
        ELSE _fetch_with_fallback(r, rec2)

\* lines 61-86: the semantic cache, then the hot cache
SemanticCache(r, rec) ==
    LET in == rec.input
        hits == search_similar(in.query_text.v, rec.symbol)
        rec2 == [rec EXCEPT !.calls = rec.calls \o <<"semantic.search_similar">>]
    IN  IF ~Truthy(in.query_text) THEN HotCache(r, rec)
        ELSE IF hits = {} THEN HotCache(r, rec2)
        ELSE \E semantic_hit \in hits :
                /\ Return(r, rec2,
                          ToolResponse(TRUE,
                                       [symbol |-> rec.symbol,
                                        price |-> semantic_hit.response.price,
                                        timestamp |-> now,
                                        data_source |-> "semantic_cache",
                                        cache_hit |-> TRUE],
                                       None, TRUE, "semantic_cache"))
                /\ UNCHANGED <<snapshot, semantic, lineage>>

\* handle_quote_latest from its entry: validation (lines 43-59, 156-163), then
\* the tiers
handle_quote_latest(r, in) ==
    LET symbol == validate_symbol(in.symbol)
        exchange == validate_exchange(in.exchange)
        max_age == validate_max_age_sec(in.max_age_sec)
        rec == [Idle EXCEPT !.input = in]
    IN  /\ req[r].pc = "idle"
        /\ UNCHANGED <<redisUp, stream, connVars>>
        /\ IF ~symbol.ok
           THEN /\ Return(r, rec, ToolResponse(FALSE, None, symbol.error, FALSE, None))
                /\ UNCHANGED <<snapshot, semantic, lineage>>
           ELSE IF ~exchange.ok
           THEN /\ Return(r, rec, ToolResponse(FALSE, None, exchange.error, FALSE, None))
                /\ UNCHANGED <<snapshot, semantic, lineage>>
           ELSE IF ~max_age.ok
           THEN /\ Return(r, rec, ToolResponse(FALSE, None, max_age.error, FALSE, None))
                /\ UNCHANGED <<snapshot, semantic, lineage>>
           ELSE SemanticCache(r, [rec EXCEPT
                    !.symbol = symbol.v,
                    !.max_age_sec = IF max_age.v # 0 THEN max_age.v
                                    ELSE default_max_age_sec])

\* the answer to a Finnhub attempt arrives (quote_latest.py lines 202-209)
FinnhubResponse(r, out) ==
    LET rec == req[r]
        attempt == finnhub_attempt(rec.symbol, out)
    IN  /\ rec.pc = "finnhub"
        /\ UNCHANGED <<redisUp, stream, connVars>>
        /\ IF RetryAgain(attempt, rec.attempts)
           THEN /\ req' = [req EXCEPT ![r] =
                            [rec EXCEPT !.pc = "finnhub_backoff",
                                        !.wake = now + wait_exponential(rec.attempts)]]
                /\ UNCHANGED <<now, _last_call_time, snapshot, semantic, lineage>>
           ELSE LET rec2 == [rec EXCEPT !.fh = GetQuoteResult(attempt)]
                IN  IF Escapes(attempt)
                    THEN /\ Return(r, rec2, InternalError)
                         /\ UNCHANGED <<snapshot, semantic, lineage>>
                    ELSE IF Accepted(attempt) THEN Complete(r, rec2, attempt.quote)
                    ELSE CallProvider(r, rec2, "alpha_vantage")

\* the answer to an Alpha Vantage attempt arrives (lines 211-220)
AlphaVantageResponse(r, out) ==
    LET rec == req[r]
        attempt == alpha_vantage_attempt(rec.symbol, out)
    IN  /\ rec.pc = "alpha_vantage"
        /\ UNCHANGED <<redisUp, stream, connVars>>
        /\ IF RetryAgain(attempt, rec.attempts)
           THEN /\ req' = [req EXCEPT ![r] =
                            [rec EXCEPT !.pc = "alpha_vantage_backoff",
                                        !.wake = now + wait_exponential(rec.attempts)]]
                /\ UNCHANGED <<now, _last_call_time, snapshot, semantic, lineage>>
           ELSE LET rec2 == [rec EXCEPT !.av = GetQuoteResult(attempt)]
                IN  IF Escapes(attempt)
                    THEN /\ Return(r, rec2, InternalError)
                         /\ UNCHANGED <<snapshot, semantic, lineage>>
                    ELSE IF Accepted(attempt) THEN Complete(r, rec2, attempt.quote)
                    ELSE Fail(r, rec2)

\* tenacity: the pause after a failed attempt is over (asyncio.sleep returns)
\* and get_quote is attempted again
Retry(r) ==
    LET rec == req[r]
        provider == IF rec.pc = "finnhub_backoff" THEN "finnhub" ELSE "alpha_vantage"
    IN  /\ rec.pc \in {"finnhub_backoff", "alpha_vantage_backoff"}
        /\ now >= rec.wake
        /\ req' = [req EXCEPT ![r] =
                    [rec EXCEPT !.pc = provider, !.attempts = rec.attempts + 1,
                                !.wake = 0,
                                !.calls = rec.calls \o <<provider \o ".http">>]]
        /\ SendRequest(provider)
        /\ UNCHANGED <<redisUp, snapshot, stream, semantic, lineage, connVars>>

(***************************************************************************)
(* The stream path (connectors/binance_ws.py).                             *)
(***************************************************************************)
\* faulty variant of _process_message: the tick is appended to the Redis
\* stream and passed to the callback, the snapshot is not written
_process_message_stream_only(subscription_id, symbol, message) ==
    IF message.e # "trade"
    THEN UNCHANGED <<snapshot, stream, observed>>
    ELSE LET price == IF message.p = None THEN 0 ELSE message.p.v
             E == IF message.E = None THEN 0 ELSE message.E.v
             tick == StreamTick(upper(symbol), price, E)
         IN  /\ stream' = add_to_stream(tick)
             /\ snapshot' = snapshot
             /\ observed' = IF subscription_id \in _callbacks
                            THEN [observed EXCEPT ![subscription_id] = Append(@, tick)]
                            ELSE observed

\* _process_message: a message received on subscription_id, subscribed for
\* `symbol`; malformed JSON and other events are skipped, a trade becomes a
\* tick that is appended to the Redis stream, written as the snapshot and
\* passed to the callback registered for the subscription
_process_message(subscription_id, symbol, message) ==
    IF message.e # "trade"
    THEN UNCHANGED <<snapshot, stream, observed>>
    ELSE LET price == IF message.p = None THEN 0 ELSE message.p.v
             E == IF message.E = None THEN 0 ELSE message.E.v
             tick == StreamTick(upper(symbol), price, E)
         IN  /\ stream' = add_to_stream(tick)
             /\ snapshot' = set_snapshot(QuoteData(tick.symbol, tick.price,
                                                   tick.timestamp, "binance", FALSE))
             /\ observed' = IF subscription_id \in _callbacks
                            THEN [observed EXCEPT ![subscription_id] = Append(@, tick)]
                            ELSE observed

(***************************************************************************)
(* BinanceWebSocketConnector: subscribe, unsubscribe and the listening     *)
(* task _listen.  A task is at one of its suspension points: "created"     *)
(* (not yet run), "connecting" (websockets.connect), "streaming" (waiting  *)
(* for the next message), "backoff" (asyncio.sleep(reconnect_delay)), or   *)
(* it is "done".                                                           *)
(***************************************************************************)
\* faulty variant of Drop: the table is emptied
Drop_all(store, key) == [k \in {} |-> None]

\* del table[key] / table.pop(key): the table without the key
Drop(store, key) == [k \in DOMAIN store \ {key} |-> store[k]]

NoTask ==
    [pc |-> "none", symbol |-> <<>>, channel |-> "", reconnect_delay |-> 0,
     failed |-> 0, connected |-> FALSE, cancel |-> FALSE, ws |-> "none",
     received |-> 0, skipped |-> 0]

\* log is the event unsubscribe logs when it returns: unknown_subscription,
\* binance_unsubscribed or binance_unsubscribe_error
NoCall ==
    [pc |-> "idle", id |-> UnknownId, handler |-> FALSE, ret |-> FALSE, error |-> "",
     log |-> ""]

\* faulty variant of subscribe: the id is not added to the running set
subscribe_not_running(subscription_id, symbol, channel, callback) ==
    /\ _subscriptions' = Put(_subscriptions, subscription_id, upper(symbol))
    /\ _callbacks' = IF callback THEN _callbacks \cup {subscription_id} ELSE _callbacks
    /\ task' = [task EXCEPT ![subscription_id] =
                    [NoTask EXCEPT !.pc = "created", !.symbol = upper(symbol),
                                   !.channel = channel]]
    /\ _tasks' = _tasks \cup {subscription_id}
    /\ _running' = _running

\* faulty variant of subscribe: returns once the connection is established
subscribe_blocking(subscription_id, symbol, channel, callback) ==
    /\ _subscriptions' = Put(_subscriptions, subscription_id, upper(symbol))
    /\ _callbacks' = IF callback THEN _callbacks \cup {subscription_id} ELSE _callbacks
    /\ task' = [task EXCEPT ![subscription_id] =
                    [NoTask EXCEPT !.pc = "streaming", !.symbol = upper(symbol),
                                   !.channel = channel, !.ws = "open",
                                   !.connected = TRUE,
                                   !.reconnect_delay = reconnect_floor]]
    /\ _tasks' = _tasks \cup {subscription_id}
    /\ _running' = _running \cup {subscription_id}

\* subscribe(): the bookkeeping of a new id, whose task is created but has
\* not run yet
subscribe(subscription_id, symbol, channel, callback) ==
    /\ _subscriptions' = Put(_subscriptions, subscription_id, upper(symbol))
    /\ _callbacks' = IF callback THEN _callbacks \cup {subscription_id} ELSE _callbacks
    /\ task' = [task EXCEPT ![subscription_id] =
                    [NoTask EXCEPT !.pc = "created", !.symbol = upper(symbol),
                                   !.channel = channel]]
    /\ _tasks' = _tasks \cup {subscription_id}
    /\ _running' = _running \cup {subscription_id}

\* uuid4: a new id, different from every id issued before (the smallest
\* unused number)
NewId(subscription_id) ==
    /\ task[subscription_id].pc = "none"
    /\ \A j \in SubIds : j < subscription_id => task[j].pc # "none"

\* a client of the connector subscribes, with or without a callback
Subscribe(subscription_id, symbol, callback) ==
    /\ NewId(subscription_id)
    /\ subscribe(subscription_id, symbol, "trade", callback)
    /\ UNCHANGED <<now, redisUp, snapshot, stream, semantic, lineage, req,
                   _last_call_time, _connections, _active_subscriptions, unsub,
                   observed, stream_resp, lifespan>>

\* subscribe() when the 8 hex digits of uuid4 are those of an id issued
\* before: the id is not compared with the tables (line 50), its entries are
\* assigned again and a new task is created under it; a task the id had is
\* no longer in the task table, and the model follows the new task only
SubscribeSameId(subscription_id, symbol, callback) ==
    /\ task[subscription_id].pc # "none"
    /\ subscribe(subscription_id, symbol, "trade", callback)
    /\ UNCHANGED <<now, redisUp, snapshot, stream, semantic, lineage, req,
                   _last_call_time, _connections, _active_subscriptions, unsub,
                   observed, stream_resp, lifespan>>

\* LineageWriter.record_agent_call(): the agent's call to the API, when the
\* Neo4j calls succeed; a failure is caught and logged
record_agent_call(agent_id, api_name, symbol, tool_name, ok) ==
    IF ok
    THEN lineage \cup {[agent |-> agent_id, api |-> api_name, instrument |-> symbol,
                        tool |-> tool_name]}
    ELSE lineage

\* faulty variant of handle_quote_stream: the channel is validated after the
\* connector has subscribed
handle_quote_stream_late_check(subscription_id, in) ==
    LET symbol == validate_symbol(in.symbol)
        channel == validate_channel(in.channel)
    IN  /\ NewId(subscription_id)
        /\ UNCHANGED <<now, redisUp, snapshot, stream, semantic, req, _last_call_time,
                       _connections, unsub, observed, lifespan>>
        /\ IF ~symbol.ok
           THEN /\ stream_resp' = ToolResponse(FALSE, None, symbol.error, FALSE, None)
                /\ UNCHANGED <<_subscriptions, _callbacks, _running, _tasks,
                               _active_subscriptions, task, lineage>>
           ELSE /\ subscribe(subscription_id, symbol.v, "trade", FALSE)
                /\ UNCHANGED lineage
                /\ IF ~channel.ok
                   THEN /\ stream_resp' = ToolResponse(FALSE, None, channel.error, FALSE, None)
                        /\ UNCHANGED _active_subscriptions
                   ELSE /\ _active_subscriptions' = _active_subscriptions \cup {subscription_id}
                        /\ stream_resp' = ToolResponse(TRUE,
                                               [subscription_id |-> subscription_id,
                                                status |-> "subscribed", symbol |-> symbol.v,
                                                channel |-> channel.v],
                                               None, FALSE, "binance")

\* handle_quote_stream: validation, subscribe without callback, registry,
\* lineage, response
handle_quote_stream(subscription_id, in) ==
    LET symbol == validate_symbol(in.symbol)
        channel == validate_channel(in.channel)
    IN  /\ NewId(subscription_id)
        /\ UNCHANGED <<now, redisUp, snapshot, stream, semantic, req, _last_call_time,
                       _connections, unsub, observed, lifespan>>
        /\ IF ~symbol.ok
           THEN /\ stream_resp' = ToolResponse(FALSE, None, symbol.error, FALSE, None)
                /\ UNCHANGED <<_subscriptions, _callbacks, _running, _tasks,
                               _active_subscriptions, task, lineage>>
           ELSE IF ~channel.ok
           THEN /\ stream_resp' = ToolResponse(FALSE, None, channel.error, FALSE, None)
                /\ UNCHANGED <<_subscriptions, _callbacks, _running, _tasks,
                               _active_subscriptions, task, lineage>>
           ELSE /\ subscribe(subscription_id, symbol.v,
                             IF channel.v = <<"t","r","a","d","e","s">>
                             THEN "trade" ELSE "ticker", FALSE)
                /\ _active_subscriptions' = _active_subscriptions \cup {subscription_id}
                /\ IF Truthy(in.agent_id)
                   THEN \E ok \in BOOLEAN :
                           lineage' = record_agent_call(in.agent_id.v, "binance", symbol.v,
                                                        "quote.stream", ok)
                   ELSE UNCHANGED lineage
                /\ stream_resp' = ToolResponse(TRUE,
                                       [subscription_id |-> subscription_id,
                                        status |-> "subscribed", symbol |-> symbol.v,
                                        channel |-> channel.v],
                                       None, FALSE, "binance")

\* faulty variant of the connector's get_active_subscriptions: the ids of the
\* running set
get_active_subscriptions_running ==
    [id \in DOMAIN _subscriptions \cap _running |-> _subscriptions[id]]

\* BinanceWebSocketConnector.get_active_subscriptions(): dict(self._subscriptions),
\* a new map from id to symbol; the method is not a coroutine and runs
\* between two steps of the tasks
BinanceWebSocketConnector_get_active_subscriptions ==
    [id \in DOMAIN _subscriptions |-> _subscriptions[id]]

\* quote_stream.get_active_subscriptions(): dict(_active_subscriptions), of
\* which the model keeps the ids
get_active_subscriptions == {id \in SubIds : id \in _active_subscriptions}

\* what the callers of unsubscribe leave alone
UnsubFrame ==
    UNCHANGED <<now, redisUp, snapshot, stream, semantic, lineage, req,
                _last_call_time, observed, stream_resp, lifespan>>

\* unsubscribe returns `success`: to handle_unsubscribe, which then drops its
\* registry entry or reports "Failed to unsubscribe", or to a direct caller
ReturnUnsub(c, u, success) ==
    /\ unsub' = [unsub EXCEPT ![c] =
                    [u EXCEPT !.pc = "done", !.ret = success,
                              !.error = IF u.handler /\ ~success
                                        THEN "Failed to unsubscribe" ELSE ""]]
    /\ _active_subscriptions' = IF u.handler /\ success
                                THEN _active_subscriptions \ {u.id}
                                ELSE _active_subscriptions

\* faulty variant of CleanUp: the subscription table keeps the id
CleanUp_keep(c, u) ==
    /\ UNCHANGED _subscriptions
    /\ _callbacks' = _callbacks \ {u.id}
    /\ ReturnUnsub(c, [u EXCEPT !.log = "binance_unsubscribed"], TRUE)

\* unsubscribe, lines 105-115: forget the subscription and its callback
CleanUp(c, u) ==
    /\ _subscriptions' = Drop(_subscriptions, u.id)
    /\ _callbacks' = _callbacks \ {u.id}
    /\ ReturnUnsub(c, [u EXCEPT !.log = "binance_unsubscribed"], TRUE)

\* faulty variant of Disconnect: the connection is neither closed nor dropped
Disconnect_skip(c, u) ==
    /\ UNCHANGED <<task, _connections>>
    /\ CleanUp(c, u)

\* unsubscribe, lines 100-103: close the socket in the connection table,
\* which suspends the caller, or go on when the id has none
Disconnect(c, u) ==
    IF u.id \in DOMAIN _connections
    THEN /\ task' = [task EXCEPT ![_connections[u.id]].ws = "closed"]
         /\ unsub' = [unsub EXCEPT ![c] = [u EXCEPT !.pc = "await_close"]]
         /\ UNCHANGED <<_connections, _subscriptions, _callbacks, _active_subscriptions>>
    ELSE /\ UNCHANGED <<task, _connections>>
         /\ CleanUp(c, u)

\* faulty variant of AfterTask: the entry of the task table is kept
AfterTask_keep(c, u) ==
    IF u.id \notin _tasks
    THEN /\ ReturnUnsub(c, [u EXCEPT !.log = "binance_unsubscribe_error"], FALSE)
         /\ UNCHANGED <<task, _tasks, _connections, _subscriptions, _callbacks>>
    ELSE /\ UNCHANGED _tasks
         /\ Disconnect(c, u)

\* faulty variant of AfterTask: a missing entry of the task table is passed
\* over
AfterTask_tolerant(c, u) ==
    /\ _tasks' = _tasks \ {u.id}
    /\ Disconnect(c, u)

\* unsubscribe, line 98 on, once the awaited task is done: a missing table
\* entry raises KeyError, which the handler of line 117 turns into False
AfterTask(c, u) ==
    IF u.id \notin _tasks
    THEN /\ ReturnUnsub(c, [u EXCEPT !.log = "binance_unsubscribe_error"], FALSE)
         /\ UNCHANGED <<task, _tasks, _connections, _subscriptions, _callbacks>>
    ELSE /\ _tasks' = _tasks \ {u.id}
         /\ Disconnect(c, u)

\* unsubscribe from its entry to its first suspension point or its return
unsubscribe(c, u) ==
    IF u.id \notin DOMAIN _subscriptions
    THEN /\ ReturnUnsub(c, [u EXCEPT !.log = "unknown_subscription"], FALSE)
         /\ UNCHANGED <<task, _running, _tasks, _connections, _subscriptions, _callbacks>>
    ELSE /\ _running' = _running \ {u.id}
         /\ IF u.id \in _tasks /\ task[u.id].pc # "done"
            THEN /\ task' = [task EXCEPT ![u.id].cancel = TRUE]
                 /\ unsub' = [unsub EXCEPT ![c] = [u EXCEPT !.pc = "await_task"]]
                 /\ UNCHANGED <<_tasks, _connections, _subscriptions, _callbacks,
                                _active_subscriptions>>
            ELSE IF u.id \in _tasks
            THEN AfterTask(c, u)
            ELSE /\ UNCHANGED _tasks
                 /\ Disconnect(c, u)

\* the calls are numbered in the order in which they are made
NewCall(c) ==
    /\ unsub[c].pc = "idle"
    /\ \A d \in Calls : d < c => unsub[d].pc # "idle"

\* a client of the connector calls unsubscribe
Unsubscribe(c, subscription_id) ==
    /\ NewCall(c)
    /\ subscription_id # EmptyId
    /\ unsubscribe(c, [NoCall EXCEPT !.id = subscription_id])
    /\ UnsubFrame

\* handle_unsubscribe: the checks of lines 108-119, then the connector
handle_unsubscribe(c, subscription_id) ==
    LET u == [NoCall EXCEPT !.id = subscription_id, !.handler = TRUE]
    IN  /\ NewCall(c)
        /\ UnsubFrame
        /\ IF subscription_id = EmptyId
           THEN /\ unsub' = [unsub EXCEPT ![c] =
                               [u EXCEPT !.pc = "done",
                                         !.error = "subscription_id is required"]]
                /\ UNCHANGED <<tableVars, task>>
           ELSE IF subscription_id \notin _active_subscriptions
           THEN /\ unsub' = [unsub EXCEPT ![c] =
                               [u EXCEPT !.pc = "done", !.error = "Unknown subscription"]]
                /\ UNCHANGED <<tableVars, task>>
           ELSE unsubscribe(c, u)

\* the task awaited in line 95 is done and the caller resumes
TaskAwaited(c) ==
    /\ unsub[c].pc = "await_task"
    /\ task[unsub[c].id].pc = "done"
    /\ UNCHANGED _running
    /\ AfterTask(c, unsub[c])
    /\ UnsubFrame

\* the close of line 102 is over and the caller resumes: del of a missing
\* entry raises KeyError
ConnectionClosed(c) ==
    LET u == unsub[c]
    IN  /\ u.pc = "await_close"
        /\ UNCHANGED <<_running, _tasks, task>>
        /\ IF u.id \notin DOMAIN _connections
           THEN /\ ReturnUnsub(c, [u EXCEPT !.log = "binance_unsubscribe_error"], FALSE)
                /\ UNCHANGED <<_connections, _subscriptions, _callbacks>>
           ELSE /\ _connections' = Drop(_connections, u.id)
                /\ CleanUp(c, u)
        /\ UnsubFrame

\* what the steps of a listening task leave alone
ListenFrame ==
    UNCHANGED <<now, redisUp, semantic, lineage, req, _last_call_time,
                _subscriptions, _callbacks, _running, _tasks,
                _active_subscriptions, unsub, stream_resp, lifespan>>

\* faulty variant of LoopTest: the loop is left after one round
LoopTest_leave(subscription_id, t) ==
    IF t.pc = "created" THEN [t EXCEPT !.pc = "connecting"] ELSE [t EXCEPT !.pc = "done"]

\* `while subscription_id in self._running` (line 126)
LoopTest(subscription_id, t) ==
    IF subscription_id \in _running
    THEN [t EXCEPT !.pc = "connecting"]
    ELSE [t EXCEPT !.pc = "done"]

\* faulty variant of AfterTry: the loop ends at the first failure
AfterTry_leave(subscription_id, t) == [t EXCEPT !.pc = "done"]

\* after the try statement (lines 157-165): sleep, or leave the loop
AfterTry(subscription_id, t) ==
    IF subscription_id \in _running
    THEN [t EXCEPT !.pc = "backoff"]
    ELSE [t EXCEPT !.pc = "done"]

\* the task runs for the first time (lines 123-128)
ListenStart(subscription_id) ==
    LET t == task[subscription_id]
    IN  /\ t.pc = "created" /\ ~t.cancel
        /\ task' = [task EXCEPT ![subscription_id] =
                        LoopTest(subscription_id,
                                 [t EXCEPT !.reconnect_delay = reconnect_floor])]
        /\ UNCHANGED <<_connections, snapshot, stream, observed>>
        /\ ListenFrame

\* faulty variant of Connected: the delay is not reset
Connected_keeps_delay(subscription_id) ==
    LET t == task[subscription_id]
    IN  /\ t.pc = "connecting" /\ ~t.cancel
        /\ _connections' = Put(_connections, subscription_id, subscription_id)
        /\ task' = [task EXCEPT ![subscription_id] =
                        [t EXCEPT !.pc = "streaming", !.ws = "open",
                                  !.failed = 0, !.connected = TRUE]]
        /\ UNCHANGED <<snapshot, stream, observed>>
        /\ ListenFrame

\* websockets.connect succeeds (lines 128-138)
Connected(subscription_id) ==
    LET t == task[subscription_id]
    IN  /\ t.pc = "connecting" /\ ~t.cancel
        /\ _connections' = Put(_connections, subscription_id, subscription_id)
        /\ task' = [task EXCEPT ![subscription_id] =
                        [t EXCEPT !.pc = "streaming", !.ws = "open",
                                  !.reconnect_delay = reconnect_floor,
                                  !.failed = 0, !.connected = TRUE]]
        /\ UNCHANGED <<snapshot, stream, observed>>
        /\ ListenFrame

\* websockets.connect raises (lines 144-165)
ConnectFailed(subscription_id, max_failed) ==
    LET t == task[subscription_id]
    IN  /\ t.pc = "connecting" /\ ~t.cancel
        /\ t.failed < max_failed
        /\ task' = [task EXCEPT ![subscription_id] =
                        AfterTry(subscription_id, [t EXCEPT !.failed = t.failed + 1])]
        /\ UNCHANGED <<_connections, snapshot, stream, observed>>
        /\ ListenFrame

\* the connection is lost while streaming: the iteration ends or raises
\* ConnectionClosed, the socket's context is left (lines 138-165)
ConnectionLost(subscription_id) ==
    LET t == task[subscription_id]
    IN  /\ t.pc = "streaming" /\ ~t.cancel
        /\ task' = [task EXCEPT ![subscription_id] =
                        AfterTry(subscription_id, [t EXCEPT !.ws = "closed"])]
        /\ UNCHANGED <<_connections, snapshot, stream, observed>>
        /\ ListenFrame

\* _process_message catches what json.loads, the conversion of the fields or
\* the callback raise and logs binance_json_error or binance_process_error
\* (lines 208-211)
LogsError(subscription_id, message) ==
    \/ message.e = "malformed"
    \/ /\ message.e = "trade"
       /\ subscription_id \in _callbacks
       /\ "callback" \in DOMAIN message

\* faulty variant of Message: an error of _process_message ends the connection
Message_fatal(subscription_id, message, max_trades) ==
    LET t == task[subscription_id]
    IN  /\ t.pc = "streaming" /\ ~t.cancel
        /\ message.e = "trade" => t.channel = "trade" /\ t.received < max_trades
        /\ LogsError(subscription_id, message) => t.skipped < MaxSkipped
        /\ UNCHANGED _connections
        /\ IF subscription_id \notin _running
           THEN /\ task' = [task EXCEPT ![subscription_id] =
                               AfterTry(subscription_id, [t EXCEPT !.ws = "closed"])]
                /\ UNCHANGED <<snapshot, stream, observed>>
           ELSE /\ _process_message(subscription_id, t.symbol, message)
                /\ task' = [task EXCEPT ![subscription_id] =
                               IF LogsError(subscription_id, message)
                               THEN AfterTry(subscription_id,
                                             [t EXCEPT !.ws = "closed", !.skipped = @ + 1])
                               ELSE [t EXCEPT !.received =
                                        IF message.e = "trade" THEN @ + 1 ELSE @]]
        /\ ListenFrame

\* a message arrives (lines 138-142): processed, or the loop is left when
\* the id is no longer running
Message(subscription_id, message, max_trades) ==
    LET t == task[subscription_id]
    IN  /\ t.pc = "streaming" /\ ~t.cancel
        /\ message.e = "trade" => t.channel = "trade" /\ t.received < max_trades
        /\ LogsError(subscription_id, message) => t.skipped < MaxSkipped
        /\ UNCHANGED _connections
        /\ IF subscription_id \notin _running
           THEN /\ task' = [task EXCEPT ![subscription_id] =
                               AfterTry(subscription_id, [t EXCEPT !.ws = "closed"])]
                /\ UNCHANGED <<snapshot, stream, observed>>
           ELSE /\ _process_message(subscription_id, t.symbol, message)
                /\ task' = [task EXCEPT ![subscription_id] =
                               [t EXCEPT !.received =
                                            IF message.e = "trade" THEN @ + 1 ELSE @,
                                         !.skipped =
                                            IF LogsError(subscription_id, message)
                                            THEN @ + 1 ELSE @]]
        /\ ListenFrame

\* faulty variant of Reconnect: the delay doubles without ceiling
Reconnect_uncapped(subscription_id) ==
    LET t == task[subscription_id]
    IN  /\ t.pc = "backoff" /\ ~t.cancel
        /\ task' = [task EXCEPT ![subscription_id] =
                        LoopTest(subscription_id,
                                 [t EXCEPT !.reconnect_delay = t.reconnect_delay * 2])]
        /\ UNCHANGED <<_connections, snapshot, stream, observed>>
        /\ ListenFrame

\* asyncio.sleep(reconnect_delay) is over (lines 164-165, 126)
Reconnect(subscription_id) ==
    LET t == task[subscription_id]
        doubled == IF t.reconnect_delay * 2 < max_reconnect_delay
                   THEN t.reconnect_delay * 2 ELSE max_reconnect_delay
    IN  /\ t.pc = "backoff" /\ ~t.cancel
        /\ task' = [task EXCEPT ![subscription_id] =
                        LoopTest(subscription_id, [t EXCEPT !.reconnect_delay = doubled])]
        /\ UNCHANGED <<_connections, snapshot, stream, observed>>
        /\ ListenFrame

\* faulty variant of CancelledError: a sleeping task is not interrupted
CancelledError_after_sleep(subscription_id) ==
    LET t == task[subscription_id]
    IN  /\ t.pc \in {"created", "connecting", "streaming"} /\ t.cancel
        /\ task' = [task EXCEPT ![subscription_id] =
                        [t EXCEPT !.pc = "done",
                                  !.ws = IF t.ws = "open" THEN "closed" ELSE t.ws]]
        /\ UNCHANGED <<_connections, snapshot, stream, observed>>
        /\ ListenFrame

\* faulty variant of CancelledError: the cancellation is lost and the task
\* stays where it is
CancelledError_ignored(subscription_id) ==
    LET t == task[subscription_id]
    IN  /\ t.pc \in {"created", "connecting", "streaming", "backoff"} /\ t.cancel
        /\ task' = [task EXCEPT ![subscription_id].cancel = FALSE]
        /\ UNCHANGED <<_connections, snapshot, stream, observed>>
        /\ ListenFrame

\* Task.cancel() takes effect: CancelledError is raised at the suspension
\* point, no handler of _listen catches it, the socket's context closes it
CancelledError(subscription_id) ==
    LET t == task[subscription_id]
    IN  /\ t.pc \in {"created", "connecting", "streaming", "backoff"} /\ t.cancel
        /\ task' = [task EXCEPT ![subscription_id] =
                        [t EXCEPT !.pc = "done",
                                  !.ws = IF t.ws = "open" THEN "closed" ELSE t.ws]]
        /\ UNCHANGED <<_connections, snapshot, stream, observed>>
        /\ ListenFrame

\* a message arrives on the feed of `symbol`, whose subscription (made by the
\* handler, without callback) is taken to be streaming throughout
FeedMessage(symbol, message) ==
    /\ _process_message(FeedId, symbol, message)
    /\ UNCHANGED <<now, redisUp, semantic, lineage, req, _last_call_time,
                   tableVars, task, unsub, stream_resp, lifespan>>

(***************************************************************************)
(* The environment.                                                        *)
(***************************************************************************)
\* time passes, to the next instant of interest or to the end of a pause
\* between attempts; the clock stops after LateTime
Tick ==
    /\ now < LateTime
    /\ \E t \in Times \cup {req[r].wake : r \in Reqs} : t > now /\ now' = t
    /\ UNCHANGED <<redisUp, snapshot, stream, semantic, lineage, req, _last_call_time,
                   connVars>>

\* the Redis server becomes unreachable, or reachable again
RedisFlip ==
    /\ redisUp' = ~redisUp
    /\ UNCHANGED <<now, snapshot, stream, semantic, lineage, req, _last_call_time,
                   connVars>>

Init ==
    /\ now = 0
    /\ redisUp = TRUE
    /\ snapshot = [k \in {} |-> None]
    /\ stream = [k \in {} |-> None]
    /\ semantic = {}
    /\ lineage = {}
    /\ req = [r \in Reqs |-> Idle]
    /\ _last_call_time = [p \in {"finnhub", "alpha_vantage"} |-> Epoch]
    /\ _subscriptions = [k \in {} |-> None]
    /\ _callbacks = {}
    /\ _running = {}
    /\ _tasks = {}
    /\ _connections = [k \in {} |-> None]
    /\ _active_subscriptions = {}
    /\ task = [id \in SubIds |-> NoTask]
    /\ unsub = [c \in Calls |-> NoCall]
    /\ observed = [id \in SubIds |-> <<>>]
    /\ stream_resp = None
    /\ lifespan = "started"

\* one resolution against the live feed and the environment
Next ==
    \/ \E in \in Inputs : handle_quote_latest(1, in)
    \/ \E out \in ProviderOutcomes : FinnhubResponse(1, out)
    \/ \E out \in ProviderOutcomes : AlphaVantageResponse(1, out)
    \/ Retry(1)
    \/ \E s \in StreamSymbols, m \in Messages : FeedMessage(s, m)
    \/ Tick
    \/ RedisFlip

Spec == Init /\ [][Next]_vars

\* NumReqs resolutions, concurrent or one after the other
NextPair ==
    \/ \E r \in Reqs, in \in PairInputs : handle_quote_latest(r, in)
    \/ \E r \in Reqs, out \in PairOutcomes : FinnhubResponse(r, out)
    \/ \E s \in StreamSymbols, m \in PairMessages : FeedMessage(s, m)
    \/ Tick
    \/ RedisFlip

SpecPair == Init /\ [][NextPair]_vars

\* NumReqs resolutions of symbols without stream, with provider failures and
\* retries, Redis reachable
NextLimiter ==
    \/ \E r \in Reqs, in \in LimiterInputs : handle_quote_latest(r, in)
    \/ \E r \in Reqs, out \in LimiterOutcomes : FinnhubResponse(r, out)
    \/ \E r \in Reqs, out \in LimiterOutcomes : AlphaVantageResponse(r, out)
    \/ \E r \in Reqs : Retry(r)
    \/ Tick

SpecLimiter == Init /\ [][NextLimiter]_vars

\* the steps of the listening task of one subscription
Listen(subscription_id, max_failed, messages, max_trades) ==
    \/ ListenStart(subscription_id)
    \/ Connected(subscription_id)
    \/ ConnectFailed(subscription_id, max_failed)
    \/ ConnectionLost(subscription_id)
    \/ \E m \in messages : Message(subscription_id, m, max_trades)
    \/ Reconnect(subscription_id)
    \/ CancelledError(subscription_id)

\* NumSubs subscriptions and NumCalls unsubscribe calls, through the handlers
\* or the connector, with the feed; the Redis server is reachable
NextStream ==
    \/ \E id \in SubIds, in \in PairStreamInputs : handle_quote_stream(id, in)
    \/ \E id \in SubIds : Subscribe(id, btcusdt.v, TRUE)
    \/ \E c \in Calls, id \in ArgIds : handle_unsubscribe(c, id)
    \/ \E c \in Calls, id \in ArgIds : Unsubscribe(c, id)
    \/ \E c \in Calls : TaskAwaited(c)
    \/ \E c \in Calls : ConnectionClosed(c)
    \/ \E id \in SubIds : Listen(id, PairMaxFailed, PairMessages, PairMaxTrades)

SpecStream == Init /\ [][NextStream]_vars

\* one subscription, with every input, message and failure, NumCalls
\* unsubscribe calls and the Redis server
NextListen ==
    \/ \E in \in StreamInputs : handle_quote_stream(1, in)
    \/ \E cb \in BOOLEAN : Subscribe(1, btcusdt.v, cb)
    \/ \E c \in Calls, id \in ArgIds : handle_unsubscribe(c, id)
    \/ \E c \in Calls, id \in ArgIds : Unsubscribe(c, id)
    \/ \E c \in Calls : TaskAwaited(c)
    \/ \E c \in Calls : ConnectionClosed(c)
    \/ Listen(1, MaxFailed, ListenMessages, MaxTrades)
    \/ RedisFlip

SpecListen == Init /\ [][NextListen]_vars

\* one subscription made through the connector, its listening task with up
\* to MaxFailed consecutive failures, and the unsubscribe calls for it
NextBackoff ==
    \/ Subscribe(1, btcusdt.v, FALSE)
    \/ \E c \in Calls : Unsubscribe(c, 1)
    \/ \E c \in Calls : TaskAwaited(c)
    \/ \E c \in Calls : ConnectionClosed(c)
    \/ ListenStart(1)
    \/ Connected(1)
    \/ ConnectFailed(1, MaxFailed)
    \/ ConnectionLost(1)
    \/ \E m \in PairMessages : Message(1, m, PairMaxTrades)
    \/ Reconnect(1)
    \/ CancelledError(1)

SpecBackoff == Init /\ [][NextBackoff]_vars

\* the shutdown part of server.lifespan (lines 86-88): redis_client.close()
\* releases the client's connection, which the next Redis command opens
\* again; close_all() of the connector is not called, by lifespan or by
\* anything else, so the tables and the listening tasks are left as they are
lifespan_shutdown ==
    /\ lifespan = "started"
    /\ lifespan' = "stopped"
    /\ UNCHANGED <<now, redisUp, snapshot, stream, semantic, lineage, req,
                   _last_call_time, tableVars, task, unsub, observed, stream_resp>>

\* the server with one subscription until its lifespan ends: requests are
\* handled while it is started, the calls in progress and the listening
\* task go on
NextShutdown ==
    \/ lifespan = "started" /\ \E in \in PairStreamInputs : handle_quote_stream(1, in)
    \/ lifespan = "started" /\ \E c \in Calls, id \in ArgIds : handle_unsubscribe(c, id)
    \/ \E c \in Calls : TaskAwaited(c)
    \/ \E c \in Calls : ConnectionClosed(c)
    \/ Listen(1, PairMaxFailed, PairMessages, PairMaxTrades)
    \/ lifespan_shutdown

SpecShutdown == Init /\ [][NextShutdown]_vars

\* one subscription and a second subscribe() whose uuid4 may yield the same
\* 8 hex digits
NextUuid ==
    \/ NextBackoff
    \/ SubscribeSameId(1, ethusdt.v, FALSE)

SpecUuid == Init /\ [][NextUuid]_vars

\* the event loop runs every task that is ready: a created task starts, a
\* sleep ends, a connection attempt ends (it succeeds once MaxFailed attempts
\* have failed)
SpecBackoffFair ==
    /\ SpecBackoff
    /\ WF_vars(ListenStart(1))
    /\ WF_vars(Reconnect(1))
    /\ WF_vars(Connected(1) \/ ConnectFailed(1, MaxFailed))

\* the event loop runs every task that is ready, but no sleep ever ends:
\* a cancelled task and the callers of unsubscribe resume, timers do not fire
SpecBackoffNoTimer ==
    /\ SpecBackoff
    /\ WF_vars(CancelledError(1))
    /\ \A c \in Calls : WF_vars(TaskAwaited(c)) /\ WF_vars(ConnectionClosed(c))

(***************************************************************************)
(* Vocabulary of the properties.                                           *)
(***************************************************************************)
\* the request entered the handler in this step
Started(r) == req[r].pc = "idle" /\ req'[r].pc # "idle"
\* the request passed validation
Passed(rec) == rec.symbol # <<>>
Done(r) == req[r].pc = "done"
Count(calls, name) == Cardinality({i \in 1..Len(calls) : calls[i] = name})
ProviderCalls ==
    {"binance.get_latest_price", "finnhub.get_quote", "finnhub.http",
     "alpha_vantage.get_quote", "alpha_vantage.http"}
RestCalls == ProviderCalls \ {"binance.get_latest_price"}
NoCalls(calls, names) == \A i \in 1..Len(calls) : calls[i] \notin names
\* the response is a hit served from `origin`
Hit(rec, origin) ==
    /\ rec.pc = "done"
    /\ rec.resp.success
    /\ rec.resp.cache_hit
    /\ rec.resp.data_source = origin
    /\ rec.resp.data.data_source = origin
\* the hot cache holds a snapshot of `symbol` younger than max_age
HoldsFresh(symbol, max_age) ==
    /\ symbol \in DOMAIN snapshot
    /\ now - snapshot[symbol].timestamp < max_age
\* the semantic cache holds a point for the symbol, inside the recency window,
\* whose similarity to the query meets the threshold
SemanticMatch(query, symbol) ==
    \E pt \in semantic :
        /\ pt.symbol = symbol
        /\ now - pt.timestamp <= RecencySec
        /\ Score(query.v, pt.query_text) >= semantic_cache_threshold
NoSemanticHit(rec) ==
    ~Truthy(rec.input.query_text) \/ ~SemanticMatch(rec.input.query_text, rec.symbol)

(***************************************************************************)
(* C1.  The timestamp of a cached snapshot never decreases: no hot-cache   *)
(* write, from the stream path or from the resolver, replaces a snapshot   *)
(* by one with a smaller timestamp.                                        *)
(***************************************************************************)
C1_SnapshotTimestampNeverDecreases ==
    [][\A s \in DOMAIN snapshot :
            /\ s \in DOMAIN snapshot'
            /\ snapshot'[s].timestamp >= snapshot[s].timestamp]_vars

(***************************************************************************)
(* C2.  As stated: a request with no semantic hit, for a symbol whose      *)
(* snapshot in the hot cache is younger than the request's staleness       *)
(* bound, is answered at once from the hot cache (success, cache_hit,      *)
(* origin redis_cache) without any provider call.                          *)
(***************************************************************************)
C2_Original ==
    [][\A r \in Reqs :
          (/\ Started(r)
           /\ Passed(req'[r])
           /\ NoSemanticHit(req'[r])
           /\ HoldsFresh(req'[r].symbol, req'[r].max_age_sec))
          => (/\ Hit(req'[r], "redis_cache")
              /\ NoCalls(req'[r].calls, ProviderCalls))]_vars

\* C2, amended: the same, when the Redis server is reachable (is_connected()
\* is true) as the request is handled.  The served quote is the snapshot.
C2_HotCacheHit ==
    [][\A r \in Reqs :
          (/\ Started(r)
           /\ Passed(req'[r])
           /\ NoSemanticHit(req'[r])
           /\ redisUp
           /\ HoldsFresh(req'[r].symbol, req'[r].max_age_sec))
          => (/\ Hit(req'[r], "redis_cache")
              /\ req'[r].resp.data.price = snapshot[req'[r].symbol].price
              /\ req'[r].resp.data.timestamp = snapshot[req'[r].symbol].timestamp
              /\ NoCalls(req'[r].calls, ProviderCalls))]_vars

\* a request was answered from the hot cache
C2_Witness ==
    \E r \in Reqs : Done(r) /\ req[r].resp.success /\ req[r].resp.data_source = "redis_cache"

(***************************************************************************)
(* C3.  A request with query text for which the semantic cache holds a     *)
(* match (same symbol, inside the recency window, similarity at or above   *)
(* the threshold) is answered as a cache hit with origin semantic_cache,   *)
(* and the semantic search is its only call: neither the hot cache nor a   *)
(* provider is consulted.  In every request the semantic search, if made,  *)
(* comes before any hot-cache call.                                        *)
(***************************************************************************)
C3_SemanticHitFirst ==
    [][\A r \in Reqs :
          /\ (/\ Started(r)
              /\ Passed(req'[r])
              /\ Truthy(req'[r].input.query_text)
              /\ SemanticMatch(req'[r].input.query_text, req'[r].symbol))
             => (/\ Hit(req'[r], "semantic_cache")
                 /\ req'[r].calls = <<"semantic.search_similar">>)
          /\ \A i \in 1..Len(req'[r].calls) :
                req'[r].calls[i] = "semantic.search_similar" => i = 1]_vars

\* a request was answered from the semantic cache by a point stored for a
\* different, similar query text
C3_Witness ==
    \E r \in Reqs :
        /\ Done(r)
        /\ req[r].resp.success
        /\ req[r].resp.data_source = "semantic_cache"
        /\ \A pt \in semantic : pt.query_text # req[r].input.query_text.v

(***************************************************************************)
(* C4.  A request with an invalid symbol (empty, or not 1-20 alphanumeric  *)
(* characters after trimming), an invalid exchange or a staleness bound    *)
(* outside 1..3600 is answered with success = false and the validation     *)
(* message of the first invalid field (the symbol's, for a bad symbol),    *)
(* having made no semantic-cache, hot-cache, provider or lineage call.     *)
(***************************************************************************)
Alnum == UpperLetters \cup DOMAIN UpperOf \cup Digits
\* the text between the first and the last non-whitespace character
Trimmed(s) ==
    LET idx == {i \in 1..Len(s) : s[i] \notin Whitespace}
    IN  IF idx = {} THEN <<>>
        ELSE SubSeq(s, CHOOSE i \in idx : \A j \in idx : i <= j,
                       CHOOSE i \in idx : \A j \in idx : i >= j)
WellFormed(s, chars) ==
    /\ Len(Trimmed(s)) \in 1..20
    /\ \A i \in 1..Len(Trimmed(s)) : Trimmed(s)[i] \in chars
BadSymbol(x) == x = None \/ x.t # "str" \/ ~WellFormed(x.v, Alnum)
BadExchange(x) == x # None /\ x.v # <<>> /\ ~WellFormed(x.v, Alnum \cup {"_"})
BadMaxAge(x) == x # None /\ (x.t # "int" \/ x.v \notin 1..3600)

C4_InvalidInputFailsFast ==
    \A r \in Reqs :
        LET in == req[r].input
            resp == req[r].resp
        IN  (Done(r) /\ (BadSymbol(in.symbol) \/ BadExchange(in.exchange)
                            \/ BadMaxAge(in.max_age_sec)))
            => /\ ~resp.success
               /\ resp.data = None
               /\ req[r].calls = <<>>
               /\ resp.error \in
                    (IF BadSymbol(in.symbol)
                     THEN {"Symbol cannot be empty", "Invalid symbol format"}
                     ELSE IF BadExchange(in.exchange)
                     THEN {"Invalid exchange format"}
                     ELSE {"maxAgeSec must be a positive integer",
                           "maxAgeSec cannot exceed 3600 seconds"})

\* requests were refused for each kind of invalid field
C4_Witness ==
    /\ Done(1)
    /\ req[1].input.symbol = LongSymbol
    /\ req[1].resp.error = "Invalid symbol format"
    /\ req[1].calls = <<>>

(***************************************************************************)
(* C5.  As stated: is_snapshot_fresh(symbol, maxAge) is true if and only   *)
(* if a snapshot of the symbol exists and now - timestamp < maxAge.        *)
(***************************************************************************)
TestSymbols == {AAPL, BTCUSDT, <<"b","t","c","u","s","d","t">>}
TestMaxAges == {1, default_max_age_sec, RecencySec, MaxAgeLimit}

C5_Original ==
    \A s \in TestSymbols, m \in TestMaxAges :
        is_snapshot_fresh(s, m) <=> HoldsFresh(upper(s), m)

\* C5, amended: ... if and only if the Redis server is reachable, a snapshot
\* of the symbol exists and now - timestamp < maxAge; an age equal to maxAge,
\* a missing snapshot and an unreachable server are all not fresh.
C5_FreshIffYounger ==
    \A s \in TestSymbols, m \in TestMaxAges :
        is_snapshot_fresh(s, m) <=> (redisUp /\ HoldsFresh(upper(s), m))

\* a snapshot whose age equals one staleness bound and is below another
C5_Witness ==
    /\ redisUp
    /\ BTCUSDT \in DOMAIN snapshot
    /\ now - snapshot[BTCUSDT].timestamp = RecencySec
    /\ ~is_snapshot_fresh(BTCUSDT, RecencySec)
    /\ is_snapshot_fresh(BTCUSDT, MaxAgeLimit)

(***************************************************************************)
(* C6.  After a resolution for a symbol, without query text, has succeeded *)
(* through the provider chain (cache_hit = false) and written its quote to *)
(* the hot cache, an identical request issued while the hot cache is       *)
(* reachable and before the staleness bound has elapsed since that quote   *)
(* is answered from the hot cache (success, cache_hit, origin redis_cache) *)
(* with no provider call.                                                  *)
(***************************************************************************)
C6_RepeatHitsHotCache ==
    [][\A r1, r2 \in Reqs :
          (/\ r1 # r2
           /\ Done(r1)
           /\ req[r1].resp.success
           /\ ~req[r1].resp.cache_hit
           /\ Count(req[r1].calls, "redis.set_snapshot") = 1
           /\ ~Truthy(req[r1].input.query_text)
           /\ Started(r2)
           /\ req'[r2].input = req[r1].input
           /\ redisUp
           /\ now - req[r1].resp.data.timestamp < req[r1].max_age_sec)
          => (/\ Hit(req'[r2], "redis_cache")
              /\ NoCalls(req'[r2].calls, ProviderCalls))]_vars

(***************************************************************************)
(* C7.  The REST order is Finnhub, then Alpha Vantage.  When Finnhub's     *)
(* get_quote yields Empty or fails (an exception, retries exhausted, or a  *)
(* quote the chain rejects) and Alpha Vantage returns a quote with a       *)
(* positive price, the resolution returns Alpha Vantage's quote with       *)
(* origin alpha_vantage; Finnhub's get_quote was called once, before Alpha *)
(* Vantage's, and Finnhub is not called after it.                          *)
(***************************************************************************)
Index(calls, name) == CHOOSE i \in 1..Len(calls) : calls[i] = name

C7_SecondProviderAnswers ==
    \A r \in Reqs :
        LET rec == req[r]
            calls == rec.calls
        IN  /\ Count(calls, "alpha_vantage.get_quote") > 0
                => /\ Count(calls, "finnhub.get_quote") = 1
                   /\ Index(calls, "finnhub.get_quote") < Index(calls, "alpha_vantage.get_quote")
                   /\ \A i \in 1..Len(calls) :
                        i > Index(calls, "alpha_vantage.get_quote")
                            => calls[i] \notin {"finnhub.get_quote", "finnhub.http"}
                   /\ rec.fh # None
                   /\ rec.fh.result = "quote" => rec.fh.price <= 0
            /\ (rec.av # None /\ rec.av.result = "quote" /\ rec.av.price > 0)
                => /\ rec.pc = "done"
                   /\ rec.resp.success
                   /\ ~rec.resp.cache_hit
                   /\ rec.resp.data_source = "alpha_vantage"
                   /\ rec.resp.data.data_source = "alpha_vantage"
                   /\ rec.resp.data.price = rec.av.price

\* Finnhub answered Empty, Alpha Vantage answered with a quote, which was returned
C7_Witness ==
    /\ Done(1)
    /\ req[1].fh = [result |-> "empty"]
    /\ req[1].av = [result |-> "quote", price |-> 1]
    /\ req[1].resp.success
    /\ req[1].resp.data_source = "alpha_vantage"

(***************************************************************************)
(* C8.  The resolver never retries the chain: in one resolution each       *)
(* provider's get_quote is invoked at most once and causes at most         *)
(* stop_after_attempt (3) outbound attempts, so at most 6 in total, and a  *)
(* resolution that fails with "Failed to fetch quote" has called each      *)
(* provider exactly once.                                                  *)
(***************************************************************************)
C8_ChainNotRetried ==
    \A r \in Reqs :
        LET calls == req[r].calls
        IN  /\ Count(calls, "finnhub.get_quote") <= 1
            /\ Count(calls, "alpha_vantage.get_quote") <= 1
            /\ Count(calls, "finnhub.http") <= 3
            /\ Count(calls, "alpha_vantage.http") <= 3
            /\ Count(calls, "finnhub.http") + Count(calls, "alpha_vantage.http") <= 6
            /\ (Count(calls, "finnhub.get_quote") = 0) = (Count(calls, "finnhub.http") = 0)
            /\ (Count(calls, "alpha_vantage.get_quote") = 0)
                    = (Count(calls, "alpha_vantage.http") = 0)
            /\ (Done(r) /\ ~req[r].resp.success /\ req[r].resp.error = "Failed to fetch quote")
                => /\ Count(calls, "finnhub.get_quote") = 1
                   /\ Count(calls, "alpha_vantage.get_quote") = 1

\* a resolution failed after three attempts at each provider
C8_Witness ==
    /\ Done(1)
    /\ ~req[1].resp.success
    /\ Count(req[1].calls, "finnhub.http") = 3
    /\ Count(req[1].calls, "alpha_vantage.http") = 3

(***************************************************************************)
(* C9.  A resolution that reaches the fallback chain with a symbol that    *)
(* contains USDT, BTC, ETH or BNB consults the stream cache first.  If the *)
(* latest stream tick of the symbol can be read, the resolution returns    *)
(* that tick with origin binance and calls no REST provider; if there is   *)
(* none, or the lookup fails, Finnhub is called next.  For any other       *)
(* symbol the stream cache is never consulted.                             *)
(***************************************************************************)
Markers == {<<"U","S","D","T">>, <<"B","T","C">>, <<"E","T","H">>, <<"B","N","B">>}
\* the symbol has a marker as a run of consecutive characters
Marked(symbol) ==
    \E m \in Markers : \E i \in 1..Len(symbol) :
        /\ i + Len(m) - 1 <= Len(symbol)
        /\ \A j \in 1..Len(m) : symbol[i + j - 1] = m[j]
\* the request was not answered by a cache
ReachedChain(rec) == Passed(rec) /\ ~(rec.pc = "done" /\ rec.resp.cache_hit)

C9_WitnessRest ==
    /\ req[1].symbol = <<"X","E","T","H">>
    /\ req[1].pc = "finnhub"
    /\ req[1].calls[Len(req[1].calls) - 2] = "binance.get_latest_price"

(***************************************************************************)
(* C10.  Every snapshot stored in the hot cache and every successful       *)
(* response (from a REST provider, a stream tick or a cache) has           *)
(* price > 0.                                                              *)
(***************************************************************************)
C10_PricesPositive ==
    /\ \A s \in DOMAIN snapshot : snapshot[s].price > 0
    /\ \A r \in Reqs : (Done(r) /\ req[r].resp.success) => req[r].resp.data.price > 0

(***************************************************************************)
(* C11.  As stated: whenever a resolution succeeds through the fallback    *)
(* chain, the hot cache holds the chain's quote (price, timestamp, origin) *)
(* under the symbol when the response is returned.                         *)
(***************************************************************************)
\* request r returns in this step with a quote the fallback chain produced
ChainSuccess(r) ==
    /\ req[r].pc # "done"
    /\ req'[r].pc = "done"
    /\ req'[r].resp.success
    /\ ~req'[r].resp.cache_hit
\* the hot cache holds the quote of the response under its symbol
Stored(store, data) ==
    /\ data.symbol \in DOMAIN store
    /\ store[data.symbol].price = data.price
    /\ store[data.symbol].timestamp = data.timestamp
    /\ store[data.symbol].source = data.data_source

C11_Original ==
    [][\A r \in Reqs : ChainSuccess(r) => Stored(snapshot', req'[r].resp.data)]_vars

\* C11, amended: whenever a resolution succeeds through the fallback chain
\* while the Redis server is reachable (is_connected() is true), the chain's
\* quote replaces whatever snapshot of the symbol the hot cache holds, even a
\* newer one, before the response is returned; when the server is unreachable
\* the hot cache is left as it is and the response is returned all the same.
C11_ChainSuccessWritesSnapshot ==
    [][\A r \in Reqs :
          ChainSuccess(r) =>
            IF redisUp THEN Stored(snapshot', req'[r].resp.data)
            ELSE snapshot' = snapshot]_vars

\* a chain quote replaced a snapshot with a greater timestamp
C11_Witness ==
    \E r \in Reqs :
        /\ Done(r)
        /\ req[r].resp.success
        /\ ~req[r].resp.cache_hit
        /\ Stored(snapshot, req[r].resp.data)
        /\ \E s \in DOMAIN stream : s = req[r].symbol /\ stream[s].ts > req[r].resp.data.timestamp

(***************************************************************************)
(* C12.  Whenever a resolution with a free-text query succeeds through the *)
(* fallback chain, the semantic cache holds the result under that query    *)
(* text and symbol when the response is returned, whether or not the       *)
(* request names a requester.                                              *)
(***************************************************************************)
C12_QueryResultStored ==
    [][\A r \in Reqs :
          (ChainSuccess(r) /\ Truthy(req'[r].input.query_text))
          => \E pt \in semantic' :
                /\ pt.query_text = req'[r].input.query_text.v
                /\ pt.symbol = req'[r].symbol
                /\ pt.response.price = req'[r].resp.data.price]_vars

(***************************************************************************)
(* C13.  When every provider of the chain has failed, the resolution       *)
(* returns a structured failure (success = false, the error text "Failed   *)
(* to fetch quote", no data) and leaves the hot cache, the semantic cache  *)
(* and the lineage store unchanged.                                        *)
(***************************************************************************)
C13_AllFailedLeavesStores ==
    [][\A r \in Reqs :
          (/\ req[r].pc = "alpha_vantage"
           /\ req'[r].pc = "done"
           /\ ~req'[r].resp.success)
          => (/\ req'[r].resp.data = None
              /\ req'[r].resp.error = "Failed to fetch quote"
              /\ ~req'[r].resp.cache_hit
              /\ req'[r].resp.data_source = None
              /\ Count(req'[r].calls, "finnhub.get_quote") = 1
              /\ Count(req'[r].calls, "alpha_vantage.get_quote") = 1
              /\ NoCalls(req'[r].calls, {"redis.set_snapshot", "semantic.store_response",
                                        "lineage.record_quote_fetch"})
              /\ UNCHANGED <<snapshot, stream, semantic, lineage>>)]_vars

\* a request with requester and query failed at both providers while the hot
\* cache held a snapshot
C13_Witness ==
    /\ Done(1)
    /\ ~req[1].resp.success
    /\ Truthy(req[1].input.agent_id)
    /\ Count(req[1].calls, "alpha_vantage.http") > 0
    /\ DOMAIN snapshot # {}

(***************************************************************************)
(* C14.  Whether or not recording the lineage fails, a resolution whose    *)
(* chain succeeded returns success with the chain's quote: the response    *)
(* and the other stores are the same in both cases.                        *)
(***************************************************************************)
\* the quote the chain hands to the handler in the step that ends request r
ChainQuote(r) ==
    CASE req[r].pc = "finnhub" ->
            [price |-> req'[r].fh.price, timestamp |-> now, data_source |-> "finnhub"]
      [] req[r].pc = "alpha_vantage" ->
            [price |-> req'[r].av.price, timestamp |-> now, data_source |-> "alpha_vantage"]
      [] OTHER ->
            [price |-> stream[req'[r].symbol].price,
             timestamp |-> stream[req'[r].symbol].ts, data_source |-> "binance"]

C14_LineageFailureHarmless ==
    [][\A r \in Reqs :
          (/\ req[r].pc # "done"
           /\ req'[r].pc = "done"
           /\ Count(req'[r].calls, "lineage.record_quote_fetch") = 1)
          => (/\ req'[r].resp.success
              /\ req'[r].resp.error = None
              /\ ~req'[r].resp.cache_hit
              /\ req'[r].resp.data_source = ChainQuote(r).data_source
              /\ req'[r].resp.data.price = ChainQuote(r).price
              /\ req'[r].resp.data.timestamp = ChainQuote(r).timestamp
              /\ req'[r].resp.data.symbol = req'[r].symbol
              /\ redisUp => Stored(snapshot', req'[r].resp.data))]_vars

\* recording the lineage failed and the resolution succeeded
C14_Witness ==
    /\ Done(1)
    /\ Count(req[1].calls, "lineage.record_quote_fetch") = 1
    /\ lineage = {}
    /\ req[1].resp.success
    /\ req[1].resp.data_source = "finnhub"

(***************************************************************************)
(* C15.  Every successful resolution is reported to the lineage            *)
(* collaborator: record_quote_fetch is invoked exactly once for it.        *)
(***************************************************************************)
C15_SuccessRecorded ==
    \A r \in Reqs :
        (Done(r) /\ req[r].resp.success)
            => Count(req[r].calls, "lineage.record_quote_fetch") = 1

(***************************************************************************)
(* C16.  No provider-level error escapes the fallback chain: whatever the  *)
(* providers answer (rate limit, transport error, exhausted retries,       *)
(* empty, malformed), a resolution that reached the chain ends in success  *)
(* or in "Failed to fetch quote" after both providers gave no acceptable   *)
(* quote, never in an internal error.                                      *)
(***************************************************************************)
NoQuote(result) ==
    \/ result.result \in {"RetryError", "error", "empty"}
    \/ result.result = "quote" /\ result.price <= 0

C16_NoProviderErrorEscapes ==
    \A r \in Reqs :
        (Done(r) /\ Passed(req[r]) /\ ~req[r].resp.success)
            => /\ req[r].resp.error = "Failed to fetch quote"
               /\ req[r].fh # None
               /\ req[r].av # None
               /\ NoQuote(req[r].fh)
               /\ NoQuote(req[r].av)

\* Finnhub answered malformed, Alpha Vantage was rate limited three times
C16_Witness ==
    /\ Done(1)
    /\ req[1].fh = [result |-> "error"]
    /\ req[1].av = [result |-> "RetryError", cause |-> "RateLimitError"]
    /\ ~req[1].resp.success
    /\ req[1].resp.error = "Failed to fetch quote"

C19_ZeroValueIsEmpty ==
    \A r \in Reqs :
        /\ (req[r].fh # None /\ req[r].fh.result = "quote") => req[r].fh.price # 0
        /\ (req[r].av # None /\ req[r].av.result = "quote") => req[r].av.price # 0

(***************************************************************************)
(* C17.  For each provider client, an outbound call (a first attempt or a  *)
(* retry, of any request and for any symbol) is made no earlier than the   *)
(* provider's minimum interval after the client's previous outbound call,  *)
(* and _last_call_time is the time of the client's latest outbound call.   *)
(***************************************************************************)
Providers == {"finnhub", "alpha_vantage"}
MinInterval(p) == IF p = "finnhub" THEN 1 ELSE 12
\* request r makes an outbound call to provider p in this step
Outbound(r, p) ==
    Count(req'[r].calls, p \o ".http") > Count(req[r].calls, p \o ".http")

C17_CallsSpacedByMinInterval ==
    [][\A p \in Providers :
          IF \E r \in Reqs : Outbound(r, p)
          THEN /\ now' - _last_call_time[p] >= MinInterval(p)
               /\ _last_call_time'[p] = now'
          ELSE _last_call_time'[p] = _last_call_time[p]]_vars

\* two requests called Finnhub at the last instant of the clock: the second
\* call was made one minimum interval later
C17_Witness ==
    /\ \A r \in Reqs : req[r].pc = "finnhub" /\ req[r].attempts = 1
    /\ now = LateTime + MinInterval("finnhub")
    /\ _last_call_time["finnhub"] = now

(***************************************************************************)
(* C20.  A provider client that waits out its minimum interval does not    *)
(* hold up anything else: no step of a request takes time, so that while   *)
(* the interval passes the other provider's calls, the other requests and  *)
(* the stream loops can take their steps.                                  *)
(***************************************************************************)
C20_LimiterWaitDoesNotBlock ==
    [][(\E r \in Reqs : req'[r] # req[r]) => now' = now]_vars

(***************************************************************************)
(* Vocabulary of the stream properties.                                    *)
(***************************************************************************)
\* call c is made in this step / returns in this step
Calling(c) == unsub[c].pc = "idle" /\ unsub'[c].pc # "idle"
Returns(c) == unsub[c].pc # "done" /\ unsub'[c].pc = "done"
\* the id is an active subscription for the caller: of the connector, and
\* for handle_unsubscribe also of the handlers' registry
Known(id, handler) ==
    /\ id \in DOMAIN _subscriptions
    /\ handler => id \in _active_subscriptions
\* call d for the same id is in progress, or has taken the subscription
Overlaps(d, id) ==
    /\ unsub[d].id = id
    /\ unsub[d].pc # "idle"
    /\ unsub[d].pc # "done" \/ unsub[d].ret

(***************************************************************************)
(* C21.  unsubscribe is idempotent: a call for an id that is not an active *)
(* subscription (never issued, or already unsubscribed with success)       *)
(* returns false at once; a call for an active id that no other call for   *)
(* the same id overlaps returns success; no call ends in any other way     *)
(* than by returning.                                                      *)
(***************************************************************************)
C21_UnsubscribeIdempotent ==
    [][\A c \in Calls :
          LET u == unsub'[c]
          IN  /\ u.pc \in {"idle", "await_task", "await_close", "done"}
              /\ (Calling(c) /\ ~Known(u.id, u.handler)) => (u.pc = "done" /\ ~u.ret)
              /\ (/\ Calling(c)
                  /\ \E d \in Calls \ {c} :
                        unsub[d].pc = "done" /\ unsub[d].ret /\ unsub[d].id = u.id)
                 => (u.pc = "done" /\ ~u.ret)
              /\ (/\ Returns(c)
                  /\ Calling(c) => Known(u.id, u.handler)
                  /\ \A d \in Calls \ {c} : ~Overlaps(d, u.id))
                 => u.ret]_vars

\* a first call has returned success and a second call for the same id has
\* returned false
C21_Witness ==
    /\ unsub[1].pc = "done" /\ unsub[1].ret /\ unsub[1].handler
    /\ unsub[2].pc = "done" /\ ~unsub[2].ret /\ unsub[2].id = unsub[1].id
    /\ unsub[2].error = "Unknown subscription"
    /\ task[unsub[1].id].connected

(***************************************************************************)
(* C22.  After unsubscribe(id) has returned success, which is what it      *)
(* returns for a known id (C21), the id is absent from the running set,    *)
(* the task table, the connection table, the subscription table and the    *)
(* callback table, its listening task has finished and its socket is       *)
(* closed.                                                                 *)
(***************************************************************************)
C22_UnsubscribedLeavesNothing ==
    \A c \in Calls :
        (unsub[c].pc = "done" /\ unsub[c].ret)
        => LET id == unsub[c].id
           IN  /\ id \notin _running
               /\ id \notin _tasks
               /\ id \notin DOMAIN _connections
               /\ id \notin DOMAIN _subscriptions
               /\ id \notin _callbacks
               /\ task[id].pc = "done"
               /\ task[id].ws # "open"

\* a subscription with a callback that had connected and received a trade
\* has been unsubscribed
C22_Witness ==
    \E c \in Calls :
        /\ unsub[c].pc = "done" /\ unsub[c].ret /\ ~unsub[c].handler
        /\ task[unsub[c].id].connected
        /\ task[unsub[c].id].ws = "closed"
        /\ Len(observed[unsub[c].id]) = 1

(***************************************************************************)
(* C23.  Once unsubscribe(id) has been called for a subscription, its      *)
(* listening task only ends: it starts no connection attempt, registers no *)
(* connection, processes no message, calls no callback, and every write of *)
(* the hot cache or the Redis stream is by another subscription's message. *)
(***************************************************************************)
\* unsubscribe has taken id out of the running set
Unsubscribed(id) == task[id].pc # "none" /\ id \notin _running

C23_NoActivityAfterUnsubscribe ==
    [][\A id \in SubIds :
          Unsubscribed(id)
          => /\ task'[id].pc \in {task[id].pc, "done"}
             /\ task'[id].received = task[id].received
             /\ observed'[id] = observed[id]
             /\ id \in DOMAIN _connections' => id \in DOMAIN _connections
             /\ (snapshot' # snapshot \/ stream' # stream)
                => \E j \in SubIds \ {id} : task'[j].received # task[j].received]_vars

\* unsubscribe has been called for one subscription waiting to reconnect
\* and for one that is streaming, and neither task has run since
C23_Witness ==
    /\ task[1].pc = "backoff" /\ task[1].cancel /\ Unsubscribed(1)
    /\ task[2].pc = "streaming" /\ task[2].cancel /\ Unsubscribed(2)
    /\ 2 \in _callbacks

\* unsubscribe has been called during the first connection attempt
C23_WitnessConnecting ==
    /\ task[1].pc = "connecting" /\ task[1].cancel /\ Unsubscribed(1)

(***************************************************************************)
(* C24.  An unsubscribe issued while the listening task is in its          *)
(* reconnect wait interrupts the wait: even if no sleep ever ends, the     *)
(* call returns success and the task is done, the wait not being over.     *)
(***************************************************************************)
\* call c has cancelled the task during its reconnect wait
WaitInterrupted(c) ==
    /\ unsub[c].pc = "await_task"
    /\ task[unsub[c].id].pc = "backoff"

C24_BackoffWaitInterrupted ==
    \A c \in Calls :
        WaitInterrupted(c)
        ~> (\E d \in Calls : unsub[d].pc = "done" /\ unsub[d].ret /\ task[unsub[d].id].pc = "done")

\* unsubscribe was called during the longest wait, after MaxFailed failures
C24_Witness ==
    /\ WaitInterrupted(1)
    /\ task[1].failed = MaxFailed
    /\ task[1].reconnect_delay = max_reconnect_delay

(***************************************************************************)
(* C25.  Subscriptions are independent: a step of unsubscribe(id), whether *)
(* the call succeeds or not, leaves the table entries, the connection, the *)
(* task and its reconnect delay of every other subscription unchanged, and *)
(* no two subscriptions have the same socket in the connection table.      *)
(***************************************************************************)
\* everything the connector and the handlers hold about subscription j
Entry(j) ==
    <<j \in _running, j \in _tasks,
      {_connections[k] : k \in DOMAIN _connections \cap {j}},
      {_subscriptions[k] : k \in DOMAIN _subscriptions \cap {j}},
      j \in _callbacks, j \in _active_subscriptions, task[j], observed[j]>>

C25_SubscriptionsIndependent ==
    [][/\ \A c \in Calls :
             unsub'[c] # unsub[c]
             => \A j \in SubIds \ {unsub'[c].id} : Entry(j)' = Entry(j)
       /\ \A i, j \in DOMAIN _connections' :
             i # j => _connections'[i] # _connections'[j]]_vars

\* subscription 1 has been unsubscribed with success, a call for an unknown
\* id has failed, and subscription 2 is still connected and streaming
C25_Witness ==
    /\ unsub[1].pc = "done" /\ unsub[1].ret /\ unsub[1].id = 1
    /\ unsub[2].pc = "done" /\ ~unsub[2].ret
    /\ task[1].connected
    /\ task[2].pc = "streaming" /\ 2 \in _running /\ 2 \in DOMAIN _connections
    /\ task[2].received = 1

(***************************************************************************)
(* C26.  The lifecycle of a subscription, read off its listening task:     *)
(* Requested until the first connection attempt has ended, Streaming while *)
(* it reads from an open socket (Connected is passed through inside the    *)
(* step in which the connection is made), Reconnecting while it waits or   *)
(* connects after a failure or a loss, Closed when the task is done.       *)
(* As stated: the only moves are Requested -> (Connected) -> Streaming,    *)
(* Streaming -> Reconnecting, Reconnecting -> (Connected) -> Streaming,    *)
(* and, once unsubscribed, any state -> Closed; Closed is never left.      *)
(***************************************************************************)
State(id) ==
    LET t == task[id]
    IN  IF t.pc = "none" THEN "None"
        ELSE IF t.pc = "done" THEN "Closed"
        ELSE IF t.pc = "streaming"
             THEN IF t.ws = "open" /\ id \in DOMAIN _connections
                  THEN "Streaming" ELSE "Invalid"
        ELSE IF ~t.connected /\ t.failed = 0 THEN "Requested"
        ELSE "Reconnecting"

StatedMoves ==
    {<<"None", "Requested">>, <<"Requested", "Streaming">>,
     <<"Streaming", "Reconnecting">>, <<"Reconnecting", "Streaming">>}

\* the subscription moves along `moves`, or is closed by unsubscribe
MovesAlong(id, moves) ==
    \/ State(id)' = State(id)
    \/ <<State(id), State(id)'>> \in moves
    \/ /\ State(id)' = "Closed"
       /\ State(id) \in {"Requested", "Streaming", "Reconnecting"}
       /\ id \notin _running'

C26_Original ==
    [][\A id \in SubIds : MovesAlong(id, StatedMoves)]_vars

(***************************************************************************)
(* C26, amended: the moves are those stated and Requested -> Reconnecting, *)
(* which a subscription makes when its first connection attempt fails.     *)
(***************************************************************************)
C26_LifecycleMoves ==
    [][\A id \in SubIds :
          MovesAlong(id, StatedMoves \cup {<<"Requested", "Reconnecting">>})]_vars

\* one subscription was closed after it had streamed and reconnected, the
\* other is waiting after the failure of its first connection attempt
C26_Witness ==
    /\ State(1) = "Closed" /\ task[1].connected /\ task[1].reconnect_delay = 2
    /\ State(2) = "Reconnecting" /\ ~task[2].connected /\ task[2].pc = "backoff"

(***************************************************************************)
(* C27.  While a subscription has not been unsubscribed, no connection     *)
(* loss, transport error or failed connection attempt ends its listening   *)
(* task, and, the event loop running every ready task, each such failure   *)
(* (after which the task waits) is followed by another connection attempt. *)
(***************************************************************************)
C27_FailureLeadsToReconnect ==
    /\ [](task[1].pc = "done" => Unsubscribed(1))
    /\ (task[1].pc = "backoff" /\ ~Unsubscribed(1))
       ~> (task[1].pc = "connecting" \/ Unsubscribed(1))

\* the task attempts to connect again after a lost connection and MaxFailed
\* failed attempts in a row
C27_Witness ==
    /\ task[1].pc = "connecting"
    /\ task[1].connected
    /\ task[1].failed = MaxFailed
    /\ ~Unsubscribed(1)

(***************************************************************************)
(* C28.  As stated: when the listening task starts to wait after N failed  *)
(* connection attempts in a row, it waits min(floor * 2^N, ceiling)        *)
(* seconds, floor = 1, ceiling = 60.                                       *)
(***************************************************************************)
\* the task of id starts its reconnect wait in this step
StartsWait(id) == task[id].pc # "backoff" /\ task'[id].pc = "backoff"
\* min(floor * 2^n, ceiling)
Backoff(n) ==
    IF reconnect_floor * 2 ^ n < max_reconnect_delay
    THEN reconnect_floor * 2 ^ n ELSE max_reconnect_delay

C28_Original ==
    [][StartsWait(1) => task'[1].reconnect_delay = Backoff(task'[1].failed)]_vars

(***************************************************************************)
(* C28, amended: the wait after N failures in a row, counting the loss of  *)
(* an established connection as the first of them, is                      *)
(* min(floor * 2^(N-1), ceiling): 1 s after the first failure.             *)
(***************************************************************************)
\* failures in a row: the lost connection, if any, and the failed attempts
Failures(t) == t.failed + (IF t.connected THEN 1 ELSE 0)

C28_WaitDoublesFromFloor ==
    [][StartsWait(1) => task'[1].reconnect_delay = Backoff(Failures(task'[1]) - 1)]_vars

\* the task waits the ceiling after MaxFailed failed attempts to connect
C28_Witness ==
    /\ task[1].pc = "backoff"
    /\ ~task[1].connected
    /\ task[1].failed = MaxFailed
    /\ task[1].reconnect_delay = max_reconnect_delay
    /\ ~task[1].cancel

(***************************************************************************)
(* C29.  A successful connection resets the reconnect delay to the floor,  *)
(* so the first wait after an established connection is 1 second; and the  *)
(* delay of a running task is always between the floor and the ceiling.    *)
(***************************************************************************)
\* the connection attempt of id succeeds in this step
Connects(id) == task[id].pc = "connecting" /\ task'[id].pc = "streaming"

C29_SuccessResetsDelay ==
    /\ [][Connects(1) => task'[1].reconnect_delay = reconnect_floor]_vars
    /\ [][StartsWait(1) /\ task[1].pc = "streaming"
            => task'[1].reconnect_delay = reconnect_floor]_vars
    /\ [](task[1].pc \in {"connecting", "streaming", "backoff"}
            => /\ task[1].reconnect_delay >= reconnect_floor
               /\ task[1].reconnect_delay <= max_reconnect_delay)

\* the task waits for the first time after its connection was lost
C29_Witness ==
    /\ task[1].pc = "backoff"
    /\ task[1].connected
    /\ task[1].failed = 0
    /\ task[1].reconnect_delay = reconnect_floor
    /\ ~task[1].cancel
    /\ 1 \in _running

(***************************************************************************)
(* C30.  As stated: after a trade message received on an active            *)
(* subscription is processed, the snapshot of the tick's symbol holds the  *)
(* tick's price and timestamp with source "binance", and the callback      *)
(* registered for the subscription was called once with the tick.          *)
(***************************************************************************)
\* the tick _process_message builds from a trade message of subscription id
TickOf(id, m) ==
    StreamTick(upper(task[id].symbol),
               IF m.p = None THEN 0 ELSE m.p.v,
               IF m.E = None THEN 0 ELSE m.E.v)
\* the task of id processes the trade message m in this step
Processes(id, m) ==
    /\ m.e = "trade"
    /\ id \in _running
    /\ Message(id, m, MaxTrades)
\* the snapshot of the tick's symbol is the tick's quote after the step
SnapshotHolds(tick) ==
    /\ tick.symbol \in DOMAIN snapshot'
    /\ snapshot'[tick.symbol].price = tick.price
    /\ snapshot'[tick.symbol].timestamp = tick.timestamp
    /\ snapshot'[tick.symbol].source = "binance"
\* the callback of id, if one is registered, is called once with the tick
CallbackCalledOnce(id, tick) ==
    IF id \in _callbacks
    THEN observed'[id] = Append(observed[id], tick)
    ELSE observed'[id] = observed[id]

C30_Original ==
    [][\A m \in ListenMessages :
         Processes(1, m) => /\ SnapshotHolds(TickOf(1, m))
                            /\ CallbackCalledOnce(1, TickOf(1, m))]_vars

(***************************************************************************)
(* C30, amended: the snapshot holds the tick when the Redis server         *)
(* answers; the callback is called once with the tick in any case.         *)
(***************************************************************************)
C30_TickReachesCacheAndCallback ==
    [][\A m \in ListenMessages :
         Processes(1, m) => /\ redisUp => SnapshotHolds(TickOf(1, m))
                            /\ CallbackCalledOnce(1, TickOf(1, m))]_vars

\* two trade messages were processed for a subscription with a callback:
\* the callback saw both ticks and the snapshot is the second tick
C30_Witness ==
    /\ task[1].pc = "streaming"
    /\ task[1].received = 2
    /\ 1 \in _running /\ 1 \in _callbacks
    /\ Len(observed[1]) = 2
    /\ observed[1][1].price = 1 /\ observed[1][2].price = 0
    /\ redisUp
    /\ upper(task[1].symbol) \in DOMAIN snapshot
    /\ snapshot[upper(task[1].symbol)].price = 0
    /\ snapshot[upper(task[1].symbol)].source = "binance"

(***************************************************************************)
(* C31.  A message that is malformed or not a trade, or a trade whose      *)
(* callback raises, is skipped: a malformed or non-trade message writes    *)
(* neither the snapshot nor the Redis stream and reaches no callback, and  *)
(* in every case the task stays where it was, waiting for the next         *)
(* message on its open connection, with the id still running.              *)
(***************************************************************************)
\* the task of id consumes message m in this step
Consumes(id, m) == id \in _running /\ Message(id, m, MaxTrades)
\* a task record without its counters of messages
Position(t) == [t EXCEPT !.received = 0, !.skipped = 0]

C31_BadMessageSkipped ==
    [][\A m \in ListenMessages :
         Consumes(1, m) =>
            /\ m.e # "trade" => UNCHANGED <<snapshot, stream, observed>>
            /\ task[1].ws = "open" /\ task'[1].ws = "open"
            /\ Position(task'[1]) = Position(task[1])
            /\ UNCHANGED <<_connections, _running, _tasks, _subscriptions>>]_vars

\* an error of _process_message was logged and the subscription is streaming
\* on its first connection, its callback having seen MaxTrades ticks
C31_Witness ==
    /\ task[1].pc = "streaming" /\ task[1].ws = "open"
    /\ task[1].skipped = MaxSkipped
    /\ task[1].received = MaxTrades
    /\ task[1].failed = 0 /\ task[1].reconnect_delay = reconnect_floor
    /\ 1 \in _running /\ 1 \in _callbacks
    /\ Len(observed[1]) = MaxTrades
    /\ ~task[1].cancel

(***************************************************************************)
(* C32.  subscribe() never issues an id that is active: the id it returns  *)
(* has no entry in the subscription table, the task table or the running   *)
(* set, so no entry and no task of an existing subscription is replaced.   *)
(***************************************************************************)
\* a subscribe() call issues id in this step
Issues(id) ==
    \/ Subscribe(id, btcusdt.v, FALSE)
    \/ SubscribeSameId(id, ethusdt.v, FALSE)
\* id has bookkeeping of a subscription
Active(id) == id \in DOMAIN _subscriptions \/ id \in _tasks \/ id \in _running

C32_IdsUnique ==
    [][\A id \in SubIds : Issues(id) => ~Active(id)]_vars

(***************************************************************************)
(* C33.  subscribe() does not wait for the connection: the step that       *)
(* issues an id registers it and creates its task, which has not connected *)
(* and has no connection entry, and handle_quote_stream answers with the   *)
(* id in that same step, whatever the endpoint does afterwards.            *)
(***************************************************************************)
\* an id is issued in this step
Registers(id) == task[id].pc = "none" /\ task'[id].pc # "none"

C33_SubscribeReturnsBeforeConnecting ==
    [][\A id \in SubIds :
         Registers(id) =>
            /\ task'[id].pc \in {"created", "connecting"}
            /\ ~task'[id].connected /\ task'[id].ws = "none"
            /\ id \in DOMAIN _subscriptions' /\ id \in _tasks' /\ id \in _running'
            /\ id \notin DOMAIN _connections'
            /\ id \in _active_subscriptions'
                => /\ stream_resp'.success
                   /\ stream_resp'.data.subscription_id = id]_vars

\* the handler has answered with the id of a subscription whose endpoint was
\* never reached: MaxFailed attempts to connect have failed
C33_Witness ==
    /\ stream_resp # None
    /\ stream_resp.success
    /\ stream_resp.data.subscription_id = 1
    /\ task[1].pc = "backoff"
    /\ task[1].failed = MaxFailed
    /\ ~task[1].connected
    /\ 1 \notin DOMAIN _connections
    /\ 1 \in _running /\ 1 \in _active_subscriptions

(***************************************************************************)
(* C34.  get_active_subscriptions, of the connector and of the handlers,   *)
(* lists at every point exactly the ids that were issued and for which no  *)
(* unsubscribe has returned success yet: nothing before the first          *)
(* subscribe, an id from the step that issues it, through an unsubscribe   *)
(* call in progress or failed, until the step in which a call for it       *)
(* returns success.  The connector's map gives each id its symbol.         *)
(***************************************************************************)
\* handle_quote_stream issues id in this step
HandlerIssues(id) ==
    /\ Registers(id)
    /\ stream_resp' # None
    /\ stream_resp'.success
    /\ stream_resp'.data.subscription_id = id
\* an unsubscribe call for id returns success in this step
UnsubscribeSucceeds(id, handlers) ==
    \E c \in Calls :
        /\ unsub[c].pc # "done" /\ unsub'[c].pc = "done"
        /\ unsub'[c].id = id /\ unsub'[c].ret
        /\ unsub'[c].handler \in handlers

C34_ActiveSubscriptionsListed ==
    /\ []((\A id \in SubIds : task[id].pc = "none")
            => /\ DOMAIN BinanceWebSocketConnector_get_active_subscriptions = {}
               /\ get_active_subscriptions = {})
    /\ [](\A id \in DOMAIN BinanceWebSocketConnector_get_active_subscriptions :
            BinanceWebSocketConnector_get_active_subscriptions[id] = task[id].symbol)
    /\ [][\A id \in SubIds :
            /\ id \in DOMAIN BinanceWebSocketConnector_get_active_subscriptions'
                 <=> /\ \/ id \in DOMAIN BinanceWebSocketConnector_get_active_subscriptions
                        \/ Registers(id)
                     /\ ~UnsubscribeSucceeds(id, BOOLEAN)
            /\ id \in get_active_subscriptions'
                 <=> /\ id \in get_active_subscriptions \/ HandlerIssues(id)
                     /\ ~UnsubscribeSucceeds(id, {TRUE})]_vars

\* subscription 1 is listed while an unsubscribe call for it waits for its
\* task, and subscription 2 is no longer listed after a call for it
\* returned success
C34_Witness ==
    /\ \E c \in Calls : unsub[c].pc = "await_task" /\ unsub[c].id = 1
    /\ \E c \in Calls : unsub[c].pc = "done" /\ unsub[c].id = 2 /\ unsub[c].ret
    /\ 1 \notin _running
    /\ DOMAIN BinanceWebSocketConnector_get_active_subscriptions = {1}
    /\ task[2].pc = "done"

(***************************************************************************)
(* C35.  handle_quote_stream answers success only with the id of a task it *)
(* has just created and registered, in the connector and in the registry;  *)
(* when it answers a failure it carries no id and has left the tables, the *)
(* registry and the tasks as they were.                                    *)
(***************************************************************************)
\* two responses of handle_quote_stream, or None, are the same
SameResponse(a, b) ==
    IF a = None \/ b = None THEN a = None /\ b = None
    ELSE /\ a.success = b.success
         /\ IF a.success THEN a.data = b.data ELSE a.error = b.error
\* handle_quote_stream answers in this step (the only steps that change
\* stream_resp are its own)
HandlesQuoteStream == ~SameResponse(stream_resp, stream_resp')

C35_IdOnlyWithStartedTask ==
    [][HandlesQuoteStream =>
         IF stream_resp'.success
         THEN LET id == stream_resp'.data.subscription_id
              IN  /\ Registers(id)
                  /\ task'[id].pc = "created"
                  /\ id \in _tasks' /\ id \in _running'
                  /\ id \in DOMAIN _subscriptions'
                  /\ id \in _active_subscriptions'
         ELSE /\ stream_resp'.data = None
              /\ UNCHANGED <<_subscriptions, _callbacks, _running, _tasks,
                             _connections, _active_subscriptions, task>>]_vars

\* the request was refused, nothing is registered, and handle_unsubscribe
\* does not know the id the request would have been given
C35_Witness ==
    /\ stream_resp # None
    /\ ~stream_resp.success
    /\ stream_resp.data = None
    /\ task[1].pc = "none"
    /\ DOMAIN _subscriptions = {} /\ _tasks = {} /\ _running = {}
    /\ _active_subscriptions = {}
    /\ \E c \in Calls : /\ unsub[c].pc = "done" /\ unsub[c].id = 1
                        /\ unsub[c].handler
                        /\ unsub[c].error = "Unknown subscription"

(***************************************************************************)
(* C36.  Once the lifespan of the server has ended, every subscription is  *)
(* closed: no listening task is connecting, streaming or waiting to        *)
(* reconnect, and none is left in the running set.                         *)
(***************************************************************************)
C36_ShutdownClosesSubscriptions ==
    lifespan = "stopped"
        => \A id \in SubIds : /\ task[id].pc \in {"none", "done"}
                              /\ id \notin _running

(***************************************************************************)
(* C37.  While no unsubscribe call is in progress (subscribe has no        *)
(* suspension point), the tables of the connector agree: the running set,  *)
(* the task table and the subscription table hold the same ids, the        *)
(* connection table and the callback table hold only such ids, and the     *)
(* task of every such id has not finished.                                 *)
(***************************************************************************)
\* no call of unsubscribe is between its entry and its return
Quiescent == \A c \in Calls : unsub[c].pc \in {"idle", "done"}

C37_BookkeepingConsistent ==
    Quiescent =>
        /\ _running = _tasks
        /\ _tasks = DOMAIN _subscriptions
        /\ DOMAIN _connections \subseteq DOMAIN _subscriptions
        /\ _callbacks \subseteq DOMAIN _subscriptions
        /\ \A id \in DOMAIN _subscriptions : task[id].pc \notin {"none", "done"}

\* subscription 1 was unsubscribed while connected, subscription 2 is
\* streaming on its connection, and no call is in progress
C37_Witness ==
    /\ Quiescent
    /\ \E c \in Calls : unsub[c].pc = "done" /\ unsub[c].id = 1 /\ unsub[c].ret
    /\ task[1].pc = "done" /\ task[1].connected
    /\ DOMAIN _subscriptions = {2}
    /\ DOMAIN _connections = {2}
    /\ _callbacks = {2}
    /\ task[2].pc = "streaming"

(***************************************************************************)
(* C38.  Unsubscribe calls for the same id that all find the id active,    *)
(* which with distinct ids means that they run concurrently (two of them,  *)
(* or more): every call returns true or false, and when all of them have   *)
(* returned exactly one has returned success and the connector has no      *)
(* entry for the id left (nor the registry, when all came through          *)
(* handle_unsubscribe).                                                    *)
(***************************************************************************)
\* call c has returned, and it had found its id in the subscription table
\* (and in the registry, for handle_unsubscribe)
ReturnedFromActive(c) ==
    /\ unsub[c].pc = "done"
    /\ unsub[c].log \in {"binance_unsubscribed", "binance_unsubscribe_error"}

\* the calls for id that have returned after finding it active
FoundActive(id) == {c \in Calls : unsub[c].id = id /\ ReturnedFromActive(c)}

\* a call for id is between its suspension points
InProgress(id) ==
    \E c \in Calls : unsub[c].pc \in {"await_task", "await_close"} /\ unsub[c].id = id

C38_ConcurrentUnsubscribeOneSuccess ==
    /\ \A c \in Calls :
          /\ unsub[c].pc \in {"idle", "await_task", "await_close", "done"}
          /\ unsub[c].ret \in BOOLEAN
    /\ \A id \in SubIds :
          (Cardinality(FoundActive(id)) >= 2 /\ ~InProgress(id))
          => /\ Cardinality({c \in FoundActive(id) : unsub[c].ret}) = 1
             /\ id \notin DOMAIN _subscriptions
             /\ id \notin _tasks /\ id \notin _running
             /\ id \notin DOMAIN _connections /\ id \notin _callbacks
             /\ task[id].pc = "done"
             /\ (\A c \in FoundActive(id) : unsub[c].handler)
                   => id \notin _active_subscriptions

\* both calls waited for the task of subscription 1, which was connected;
\* the call made first has failed and the call made second has succeeded
C38_Witness ==
    /\ unsub[1].id = 1 /\ unsub[2].id = 1
    /\ ReturnedFromActive(1) /\ ReturnedFromActive(2)
    /\ ~unsub[1].ret /\ unsub[2].ret
    /\ unsub[1].handler /\ unsub[2].handler
    /\ task[1].connected
    /\ unsub[1].error = "Failed to unsubscribe"

(***************************************************************************)
(* C39.  Until unsubscribe is called for it, the id of a subscription is   *)
(* in the running set from the step that creates its task, so the task's   *)
(* first loop test succeeds and the task has not finished.                 *)
(***************************************************************************)
\* no unsubscribe call has been made for id
NotUnsubscribed(id) == \A c \in Calls : unsub[c].pc = "idle" \/ unsub[c].id # id

C39_NewTaskSeesItsId ==
    \A id \in SubIds :
        (task[id].pc # "none" /\ NotUnsubscribed(id))
            => /\ id \in _running
               /\ task[id].pc # "done"
               /\ ~task[id].cancel

\* the task of subscription 2 has run its first step and is connecting for
\* the first time
C39_Witness ==
    /\ task[2].pc = "connecting"
    /\ task[2].failed = 0 /\ ~task[2].connected
    /\ NotUnsubscribed(2)
    /\ 2 \in _running
    /\ task[1].pc = "created"

(***************************************************************************)
(* C40.  A quote that handle_quote_latest answers from the stream cache    *)
(* (data source binance, not a cache hit) is, when answered, no older      *)
(* than the max_age_sec of the request.                                    *)
(***************************************************************************)
C40_StreamTickNotStale ==
    [][\A r \in Reqs :
          (/\ req[r].pc # "done" /\ req'[r].pc = "done"
           /\ req'[r].resp.success
           /\ ~req'[r].resp.cache_hit
           /\ req'[r].resp.data_source = "binance")
          => now - req'[r].resp.data.timestamp <= req'[r].max_age_sec]_vars

=============================================================================
